---- MODULE Spec2Model ----
(***************************************************************************)
(* Model of the bookmarkstr popup:                                         *)
(*   - RelayService    (src/extension/popup/services/relay.service.ts)     *)
(*   - BookmarkService (src/extension/popup/services/bookmark.service.ts)  *)
(*   - AuthService     (src/extension/popup/services/auth.service.ts)      *)
(*   - Popup           (src/unnamed/part_012, src/unnamed/part_013)        *)
(* Spec     : the relay connection manager (connect / disconnect /         *)
(*            reconnect timers / subscriptions) under the connection mutex.*)
(* SpecSync : fetchBookmarks / deleteBookmark over nondeterministic relay  *)
(*            answers, with the tag parser and encoder.                    *)
(* SpecParse: parseBookmarkEvent over arbitrary tag lists.                 *)
(* SpecPopup: login, logout, refresh and optimistic delete in the popup.   *)
(* SpecRace : two deleteBookmark calls in flight at the same time.         *)
(***************************************************************************)
EXTENDS Integers, Sequences, FiniteSets, TLC

\* ------------------------------------------------------------------------
\* Bounds
\* ------------------------------------------------------------------------
\* calls that may wait on connectionMutex.acquire() at the same time
MaxQueue == 1
\* subscription ids the registry may hand out
MaxSubs == 1

\* ------------------------------------------------------------------------
\* Relay service: values
\* ------------------------------------------------------------------------
Urls == {"wss://a", "wss://b"}

\* failure reasons of pool.ensureRelay (error.message)
ErrMsgs == {"timeout", "refused"}

\* error === undefined
NoErr == "undefined"

\* a url the relayStatuses map has no entry for
Absent == [status |-> "absent", error |-> NoErr]

SubIds == 1..MaxSubs

RECURSIVE SeqsUpTo(_, _)
SeqsUpTo(S, n) ==
  IF n = 0 THEN {<<>>}
  ELSE LET shorter == SeqsUpTo(S, n - 1)
       IN shorter \cup {Append(q, x) : q \in {r \in shorter : Len(r) = n - 1}, x \in S}

\* the relayUrls arguments of connectToRelays: none, one url, both urls in
\* either order, one url twice
UrlLists == {<<>>, <<"wss://a">>, <<"wss://b">>,
             <<"wss://a", "wss://b">>, <<"wss://b", "wss://a">>,
             <<"wss://a", "wss://a">>, <<"wss://b", "wss://b">>}

VARIABLES
  relayStatuses,      \* Map<string, RelayStatus>
  targetRelays,       \* Set<string>
  reconnectTimeouts,  \* keys of the Map<string, timeout handle>
  timers,             \* urls whose reconnect timeout is armed and has not fired
  subscriptions,      \* keys of the Map<string, Subscription>
  streams,            \* per subscription id: the pool subscription behind it
  mutexQueue,         \* calls waiting on connectionMutex.acquire(), FIFO
  conn,               \* the connectToRelays call that holds the mutex
  opening,            \* outstanding pool.ensureRelay promises per url
  lastCall,           \* what the most recently settled call did and returned
  allCall,            \* the disconnectAllRelays call awaiting its disconnects
  listeners,          \* the registered status listeners, in registration order
  delivered           \* the listener calls the last step made, in order

relayVars == <<relayStatuses, targetRelays, reconnectTimeouts, timers,
               subscriptions, streams, mutexQueue, conn, opening, lastCall, allCall,
               listeners, delivered>>

VARIABLES
  pc,                 \* where the running fetchBookmarks / deleteBookmark call stands
  op,                 \* "fetch" or "delete": the call the user made
  bookmarkId,         \* deleteBookmark's bookmarkId argument
  eventsToProcess,    \* fetchBookmarks: the records the (retried) query returned
  refreshedEvents,    \* fetchBookmarks: the answer of the refresh query
  bookmarkListEvent,  \* fetchBookmarks: the record it parses
  currentBookmarks,   \* the list fetchBookmarks returned
  observed,           \* created_at of every record a query of this call returned
  stampEvents,        \* deleteBookmark: created_at of the records of its own query
  currentTime,        \* deleteBookmark: Math.floor(Date.now() / 1000)
  event,              \* deleteBookmark: the kind 10003 event it built
  signed,             \* window.nostr.signEvent returned the signed event
  publishedTo,        \* relays pool.publish was called on
  activeRelays,       \* deleteBookmark: what ensureRelayConnections returned
  successes,          \* deleteBookmark: relays whose publish promise reported success
  bookmarksAfterDeletion, \* deleteBookmark: the list of the verification fetch
  syncError,          \* the error the call threw
  listTags            \* the non-empty tag list the author's records carry

syncVars == <<pc, op, bookmarkId, eventsToProcess, refreshedEvents,
              bookmarkListEvent, currentBookmarks, observed, stampEvents,
              currentTime, event, signed, publishedTo, activeRelays, successes,
                 bookmarksAfterDeletion, syncError, listTags>>

VARIABLES
  filters,            \* subscribe(filters, ...): the Filter[] argument
  mergedFilter,       \* the single Filter handed to pool.subscribe
  discovery,          \* fetchUserRelays: the locals of one call and its promise
  noteQuery           \* fetchNoteContentsForBookmarks: the same

queryVars == <<filters, mergedFilter, discovery, noteQuery>>

VARIABLES
  init                \* initializeForUser: the locals of the latest call

callVars == <<init>>

VARIABLES
  parse               \* parseBookmarkEvent: the event argument and the list returned

VARIABLES
  storage,            \* chrome.storage.local: the keys AuthService writes
  popup,              \* the React state of Popup and of its Login form
  deleting,           \* handleDeleteBookmark: the locals of the call in flight
  refreshing          \* fetchAndSetBookmarks calls awaiting fetchBookmarks

VARIABLES
  race                \* two deleteBookmark calls in flight at once: their locals

appVars == <<parse, storage, popup, deleting, refreshing, race>>

NoConn == [active |-> FALSE, urls |-> <<>>, origin |-> "none"]

\* op: the call; raised: connectToRelays threw; poolClose, unsubs: the urls
\* and subscriptions disconnectFromRelay(url) issued a close call for
NoCall == [op |-> "none", url |-> "none", raised |-> FALSE,
           poolClose |-> {}, unsubs |-> {}, all |-> {},
           error |-> "none", sent |-> {}]

\* relays: the relays the stream is open on; state: "none" (no stream),
\* "open", "closed" (sub.close() called once), "closed twice"
NoStream == [relays |-> {}, state |-> "none"]

\* sub.close() on a stream: it is closed on every relay it was open on
CloseStream(stream) ==
  [relays |-> {},
   state |-> IF stream.state = "open" THEN "closed" ELSE "closed twice"]

\* subscription.unsub() on every subscription in ids
UnsubAll(ids) ==
  [id \in DOMAIN streams |->
     IF id \in ids THEN CloseStream(streams[id]) ELSE streams[id]]

\* urls: urlsToDisconnect; pending: the urls whose disconnectFromRelay has
\* not settled; behind: a connectToRelays call was waiting for the mutex
\* when disconnectAllRelays was called
NoAll == [active |-> FALSE, urls |-> {}, pending |-> {}, behind |-> FALSE]

\* the part of the service that updateRelayStatus and its callees touch
Svc == [relayStatuses |-> relayStatuses, targetRelays |-> targetRelays,
        reconnectTimeouts |-> reconnectTimeouts, timers |-> timers,
        opening |-> opening, listeners |-> listeners, delivered |-> <<>>]

\* ------------------------------------------------------------------------
\* Relay service: helpers
\* ------------------------------------------------------------------------
\* variant: no reconnect is scheduled
ScheduleReconnect_Never(s, url) ==
  s

\* scheduleReconnect: clearTimeout(existing), setTimeout(...), map.set
ScheduleReconnect(s, url) ==
  [s EXCEPT !.timers = @ \cup {url},
            !.reconnectTimeouts = @ \cup {url}]

\* variant: only the listener registered first is called
NotifyListeners_FirstOnly(s) ==
  [s EXCEPT !.delivered =
     @ \o (IF s.listeners = <<>> THEN <<>>
           ELSE <<[listener |-> s.listeners[1], statuses |-> s.relayStatuses]>>)]

\* notifyListeners: listeners.forEach(listener => listener(getRelayStatuses()))
NotifyListeners(s) ==
  [s EXCEPT !.delivered =
     @ \o [i \in 1..Len(s.listeners) |->
             [listener |-> s.listeners[i], statuses |-> s.relayStatuses]]]

\* updateRelayStatus(url, status, error)
UpdateRelayStatus(s, url, status, error) ==
  LET current == s.relayStatuses[url]
  IN IF current.status = status /\ current.error = error
     THEN s
     ELSE LET s1 == NotifyListeners([s EXCEPT !.relayStatuses[url] =
                                       [status |-> status, error |-> error]])
          IN IF status = "error" /\ url \in s1.targetRelays
             THEN ScheduleReconnect(s1, url)
             ELSE s1

\* getConnectedRelays() over a status map
ConnectedIn(rs) == {u \in Urls : rs[u].status = "connected"}

GetConnectedRelays == ConnectedIn(relayStatuses)

\* variant: the skip test forgets the 'connecting' state
ShouldSkip_ConnectedOnly(currentStatus) ==
  currentStatus = "connected"

\* the skip test at the head of the per-url callback of connectToRelays
ShouldSkip(currentStatus) ==
  currentStatus = "connected" \/ currentStatus = "connecting"

\* variant: the callback does not record the url as a target
AddTarget_Forgets(s, url) ==
  s

\* this.targetRelays.add(url), ahead of the 'connecting' status
AddTarget(s, url) ==
  [s EXCEPT !.targetRelays = @ \cup {url}]

\* the synchronous part of relayUrls.map(async url => ...): every callback
\* runs up to its await of pool.ensureRelay, in list order
RECURSIVE BeginAttempts(_, _)
BeginAttempts(s, urls) ==
  IF urls = <<>> THEN s
  ELSE LET url == Head(urls)
       IN IF ShouldSkip(s.relayStatuses[url].status)
          THEN BeginAttempts(s, Tail(urls))
          ELSE LET s1 == AddTarget(s, url)
                   s2 == UpdateRelayStatus(s1, url, "connecting", NoErr)
                   s3 == [s2 EXCEPT !.opening[url] = @ + 1]
               IN BeginAttempts(s3, Tail(urls))

SetSvc(s) ==
  /\ relayStatuses' = s.relayStatuses
  /\ targetRelays' = s.targetRelays
  /\ reconnectTimeouts' = s.reconnectTimeouts
  /\ timers' = s.timers
  /\ opening' = s.opening
  /\ listeners' = s.listeners
  /\ delivered' = s.delivered

\* a step that calls no listener
Quiet ==
  /\ listeners' = listeners
  /\ delivered' = <<>>

Range(q) == {q[i] : i \in 1..Len(q)}

\* ------------------------------------------------------------------------
\* Relay service: initializeForUser
\* ------------------------------------------------------------------------

\* attempts: the url lists connectToRelays was called with
\* outcome: "none", "returned" or the message of the error raised
NoInit == [pc |-> "idle", fallbackRelays |-> <<>>, relaysToConnect |-> <<>>,
           attempts |-> <<>>, outcome |-> "none"]

\* relayList.length > 0 ? relayList.map(r => r.url) : this.fallbackRelays
RelaysToConnect(relayList, fallbackRelays) ==
  IF Len(relayList) > 0 THEN relayList ELSE fallbackRelays

\* relaysToConnect.every(url => this.fallbackRelays.includes(url))
TriedFallbacks(relaysToConnect, fallbackRelays) ==
  \A i \in DOMAIN relaysToConnect :
    relaysToConnect[i] \in Range(fallbackRelays)

\* variant: the catch block ends without its last test
AfterCatch_NoLastTest(triedFallbacks, connected) ==
  IF ~triedFallbacks /\ connected = {} THEN "fallback" ELSE "return"

\* the catch block: connect to the fallback relays, throw, or fall through
AfterCatch(triedFallbacks, connected) ==
  IF ~triedFallbacks /\ connected = {} THEN "fallback"
  ELSE IF connected = {} THEN "throw"
  ELSE "return"

\* initializeForUser(pubkey) with relayList the result of fetchUserRelays:
\* choose the relays and call connectToRelays, which waits for the mutex
InitializeForUser(relayList, fallbackRelays) ==
  /\ UNCHANGED <<syncVars, queryVars, appVars>>
  /\ Quiet
  /\ init.pc = "idle"
  /\ Len(mutexQueue) < MaxQueue
  /\ LET relaysToConnect == RelaysToConnect(relayList, fallbackRelays)
     IN /\ init' = [pc |-> "first", fallbackRelays |-> fallbackRelays,
                    relaysToConnect |-> relaysToConnect,
                    attempts |-> <<relaysToConnect>>, outcome |-> "none"]
        /\ mutexQueue' = Append(mutexQueue,
                                [op |-> "connect", urls |-> relaysToConnect,
                                 origin |-> "init"])
  /\ UNCHANGED <<relayStatuses, targetRelays, reconnectTimeouts, timers,
                 subscriptions, streams, conn, opening, lastCall, allCall>>

\* the connectToRelays call of initializeForUser settled, raised says how.
\* After the first call: the wait loop returns at its first test when a relay
\* is connected and times out otherwise; an error enters the catch block.
\* After the call on the fallback relays: return or throw.
InitResumes(raised) ==
  LET connected == GetConnectedRelays
      finish(outcome) ==
        /\ init' = [init EXCEPT !.pc = "idle", !.outcome = outcome]
        /\ mutexQueue' = mutexQueue
  IN IF init.pc = "first"
     THEN IF ~raised /\ connected # {}
          THEN finish("returned")
          ELSE LET next == AfterCatch(TriedFallbacks(init.relaysToConnect,
                                                     init.fallbackRelays),
                                      connected)
               IN IF next = "fallback"
                  THEN /\ init' = [init EXCEPT
                                     !.pc = "fallback",
                                     !.attempts = Append(@, init.fallbackRelays)]
                       /\ mutexQueue' =
                            Append(mutexQueue,
                                   [op |-> "connect",
                                    urls |-> init.fallbackRelays,
                                    origin |-> "init"])
                  ELSE IF next = "throw"
                  THEN finish("Failed to connect to initial relays. No relays configured or connected.")
                  ELSE finish("returned")
     ELSE IF ~raised /\ connected # {}
          THEN finish("returned")
          ELSE finish("Failed to connect to initial relays. Error during fallback connection attempt.")

\* no initializeForUser call was made
InitIdle == init = NoInit

\* ------------------------------------------------------------------------
\* Relay service: actions
\* ------------------------------------------------------------------------
\* a caller (initializeForUser) invokes connectToRelays(urls); the call
\* waits for the mutex
CallConnect(urls) ==
  /\ UNCHANGED <<syncVars, queryVars, callVars, appVars>>
  /\ Quiet
  /\ Len(mutexQueue) < MaxQueue
  /\ mutexQueue' = Append(mutexQueue,
                          [op |-> "connect", urls |-> urls, origin |-> "caller"])
  /\ UNCHANGED <<relayStatuses, targetRelays, reconnectTimeouts, timers,
                 subscriptions, streams, conn, opening, lastCall, allCall>>

\* a caller invokes disconnectFromRelay(url); the call waits for the mutex
CallDisconnect(url) ==
  /\ UNCHANGED <<syncVars, queryVars, callVars, appVars>>
  /\ Quiet
  /\ Len(mutexQueue) < MaxQueue
  /\ mutexQueue' = Append(mutexQueue,
                          [op |-> "disconnect", urls |-> <<url>>, origin |-> "caller"])
  /\ UNCHANGED <<relayStatuses, targetRelays, reconnectTimeouts, timers,
                 subscriptions, streams, conn, opening, lastCall, allCall>>

\* the reconnect timeout of url fires: its callback calls connectToRelays([url])
TimerFires(url) ==
  /\ UNCHANGED <<syncVars, queryVars, callVars, appVars>>
  /\ Quiet
  /\ url \in timers
  /\ Len(mutexQueue) < MaxQueue
  /\ timers' = timers \ {url}
  /\ mutexQueue' = Append(mutexQueue,
                          [op |-> "connect", urls |-> <<url>>, origin |-> "timer"])
  /\ UNCHANGED <<relayStatuses, targetRelays, reconnectTimeouts,
                 subscriptions, streams, conn, opening, lastCall, allCall>>

\* variant: acquire() resolves although the mutex is held
MutexFree_Always ==
  TRUE

\* connectionMutex.acquire() resolves for the call at the head of the queue:
\* no connectToRelays body holds the mutex (a disconnectFromRelay body has no
\* await and holds it within one step)
MutexFree ==
  ~conn.active

\* connectToRelays acquires the mutex and starts its attempts
ConnectBegins ==
  /\ UNCHANGED <<syncVars, queryVars, callVars, appVars>>
  /\ MutexFree
  /\ mutexQueue # <<>>
  /\ Head(mutexQueue).op = "connect"
  /\ LET call == Head(mutexQueue)
     IN /\ SetSvc(BeginAttempts(Svc, call.urls))
        /\ conn' = [active |-> TRUE, urls |-> call.urls, origin |-> call.origin]
  /\ mutexQueue' = Tail(mutexQueue)
  /\ UNCHANGED <<subscriptions, streams, lastCall, allCall>>

\* pool.ensureRelay(url) resolves
AttemptSucceeds(url) ==
  /\ UNCHANGED <<syncVars, queryVars, callVars, appVars>>
  /\ conn.active
  /\ opening[url] > 0
  /\ SetSvc(UpdateRelayStatus([Svc EXCEPT !.opening[url] = @ - 1],
                              url, "connected", NoErr))
  /\ UNCHANGED <<subscriptions, streams, mutexQueue, conn, lastCall, allCall>>

\* pool.ensureRelay(url) rejects or times out with message msg
AttemptFails(url, msg) ==
  /\ UNCHANGED <<syncVars, queryVars, callVars, appVars>>
  /\ conn.active
  /\ opening[url] > 0
  /\ LET s1 == UpdateRelayStatus([Svc EXCEPT !.opening[url] = @ - 1],
                                 url, "error", msg)
     IN SetSvc([s1 EXCEPT !.targetRelays = @ \ {url}])
  /\ UNCHANGED <<subscriptions, streams, mutexQueue, conn, lastCall, allCall>>

\* Promise.allSettled resolved: count, throw or return, release the mutex;
\* a throw inside the reconnect callback is caught there
ConnectSettles ==
  /\ UNCHANGED <<syncVars, queryVars, appVars>>
  /\ conn.active
  /\ \A u \in Range(conn.urls) : opening[u] = 0
  /\ LET successfulConnections == Cardinality(GetConnectedRelays)
         raised == successfulConnections = 0 /\ Len(conn.urls) > 0
         url == conn.urls[1]
     IN /\ lastCall' = [NoCall EXCEPT !.op = "connect", !.raised = raised,
                                      !.error = IF raised THEN "Failed to connect to any relays"
                                                ELSE "none"]
        /\ SetSvc(IF conn.origin = "timer" /\ raised /\ url \in targetRelays
                  THEN ScheduleReconnect(NotifyListeners(Svc), url)
                  ELSE NotifyListeners(Svc))
        /\ IF conn.origin = "init"
           THEN InitResumes(raised)
           ELSE UNCHANGED <<init, mutexQueue>>
  /\ conn' = NoConn
  /\ UNCHANGED <<subscriptions, streams, allCall>>

\* disconnectFromRelay: clearTimeout(reconnectTimeout), reconnectTimeouts.delete
ClearReconnect(s, url) ==
  [s EXCEPT !.timers = @ \ {url},
            !.reconnectTimeouts = @ \ {url}]

\* what the settling of disconnectFromRelay(url) leaves in lastCall: when it
\* is the last disconnect that a disconnectAllRelays call awaits, that call
\* settles with it
SettledDisconnect(url, poolClose, unsubs) ==
  LET last == Head(mutexQueue).origin = "all" /\ allCall.pending = {url}
  IN [NoCall EXCEPT !.op = IF last THEN "disconnectAll" ELSE "disconnect",
                    !.url = url, !.poolClose = poolClose, !.unsubs = unsubs,
                    !.all = IF last THEN allCall.urls ELSE {}]

\* disconnectFromRelay(url) acquires the mutex and runs to its end;
\* closeThrows: pool.close([url]) throws
DisconnectFromRelay(url, closeThrows) ==
  /\ UNCHANGED <<syncVars, queryVars, callVars, appVars>>
  /\ MutexFree
  /\ mutexQueue # <<>>
  /\ Head(mutexQueue).op = "disconnect"
  /\ Head(mutexQueue).urls = <<url>>
  /\ mutexQueue' = Tail(mutexQueue)
  /\ conn' = conn
  /\ allCall' = IF Head(mutexQueue).origin # "all" THEN allCall
                ELSE IF allCall.pending = {url} THEN NoAll
                ELSE [allCall EXCEPT !.pending = @ \ {url}]
  /\ IF url \notin targetRelays
     THEN /\ SetSvc(NotifyListeners(
                      IF relayStatuses[url].status # "disconnected"
                      THEN UpdateRelayStatus(Svc, url, "disconnected", NoErr)
                      ELSE Svc))
          /\ subscriptions' = subscriptions
          /\ streams' = streams
          /\ lastCall' = SettledDisconnect(url, {}, {})
     ELSE LET s0 == ClearReconnect(Svc, url)
              s1 == [s0 EXCEPT !.targetRelays = @ \ {url}]
              s2 == UpdateRelayStatus(s1, url, "disconnecting", NoErr)
              s3 == UpdateRelayStatus(s2, url, "disconnected",
                                      IF closeThrows THEN "Close operation failed" ELSE NoErr)
          IN /\ SetSvc(NotifyListeners(s3))
             /\ subscriptions' = {}
             /\ streams' = UnsubAll(subscriptions)
             /\ lastCall' = SettledDisconnect(url, {url}, subscriptions)

\* variant: the test for connected relays never fails
NoConnectedRelays_Never(connectedRelays) ==
  FALSE

\* connectedRelays.length === 0
NoConnectedRelays(connectedRelays) ==
  connectedRelays = {}

\* subscribe(filters, callback): throws without a connected relay; else opens
\* a pool subscription on the connected relays and registers it under a
\* fresh id
Subscribe(subId) ==
  /\ UNCHANGED <<syncVars, queryVars, callVars, appVars>>
  /\ Quiet
  /\ subId \notin subscriptions
  /\ IF NoConnectedRelays(GetConnectedRelays)
     THEN /\ lastCall' = [NoCall EXCEPT !.op = "subscribe", !.raised = TRUE,
                                        !.error = "No connected relays available"]
          /\ UNCHANGED <<subscriptions, streams>>
     ELSE /\ lastCall' = [NoCall EXCEPT !.op = "subscribe"]
          /\ subscriptions' = subscriptions \cup {subId}
          /\ streams' = [streams EXCEPT ![subId] =
                           [relays |-> GetConnectedRelays, state |-> "open"]]
  /\ UNCHANGED <<relayStatuses, targetRelays, reconnectTimeouts, timers,
                 mutexQueue, conn, opening, allCall>>

\* unsubscribe(subId)
Unsubscribe(subId) ==
  /\ UNCHANGED <<syncVars, queryVars, callVars, appVars>>
  /\ Quiet
  /\ subId \in subscriptions
  /\ subscriptions' = subscriptions \ {subId}
  /\ streams' = UnsubAll({subId})
  /\ UNCHANGED <<relayStatuses, targetRelays, reconnectTimeouts, timers,
                 mutexQueue, conn, opening, lastCall, allCall>>

\* the caller closes the handle subscribe returned: subscription.unsub()
SubscriptionUnsub(subId) ==
  /\ UNCHANGED <<syncVars, queryVars, callVars, appVars>>
  /\ Quiet
  /\ streams[subId].state = "open"
  /\ streams' = UnsubAll({subId})
  /\ UNCHANGED <<relayStatuses, targetRelays, reconnectTimeouts, timers,
                 subscriptions, mutexQueue, conn, opening, lastCall, allCall>>

\* publish(event): throws without a connected relay; else awaits
\* pool.publish(connectedRelays, event), which may reject
Publish(rejects) ==
  /\ UNCHANGED <<syncVars, queryVars, callVars, appVars>>
  /\ Quiet
  /\ lastCall' = IF NoConnectedRelays(GetConnectedRelays)
                 THEN [NoCall EXCEPT !.op = "publish", !.raised = TRUE,
                                     !.error = "No connected relays available"]
                 ELSE [NoCall EXCEPT !.op = "publish", !.raised = rejects,
                                     !.error = IF rejects THEN "rejected"
                                               ELSE "none",
                                     !.sent = GetConnectedRelays]
  /\ UNCHANGED <<relayStatuses, targetRelays, reconnectTimeouts, timers,
                 subscriptions, streams, mutexQueue, conn, opening, allCall>>

\* variant: only the connected relays are disconnected
UrlsToDisconnect_Connected ==
  targetRelays \cap GetConnectedRelays

\* disconnectAllRelays: Array.from(this.targetRelays)
UrlsToDisconnect ==
  targetRelays

\* the disconnectFromRelay calls of urlsToDisconnect.map(...), in array order
DisconnectCalls(order, origin) ==
  [i \in 1..Len(order) |->
     [op |-> "disconnect", urls |-> <<order[i]>>, origin |-> origin]]

\* the orders in which a Set of urls may iterate
Orders(S) == {q \in UrlLists : Range(q) = S /\ Len(q) = Cardinality(S)}

\* disconnectAllRelays(): one disconnectFromRelay per target, each waiting for
\* the mutex; with no target it settles at once
CallDisconnectAll ==
  /\ UNCHANGED <<syncVars, queryVars, callVars, appVars>>
  /\ Quiet
  /\ ~allCall.active
  /\ Len(mutexQueue) < MaxQueue
  /\ \E order \in Orders(UrlsToDisconnect) :
       mutexQueue' = mutexQueue \o DisconnectCalls(order, "all")
  /\ IF UrlsToDisconnect = {}
     THEN /\ allCall' = NoAll
          /\ lastCall' = [NoCall EXCEPT !.op = "disconnectAll"]
     ELSE /\ allCall' = [active |-> TRUE, urls |-> UrlsToDisconnect,
                         pending |-> UrlsToDisconnect,
                         behind |-> \E i \in 1..Len(mutexQueue) :
                                      mutexQueue[i].op = "connect"]
          /\ lastCall' = lastCall
  /\ UNCHANGED <<relayStatuses, targetRelays, reconnectTimeouts, timers,
                 subscriptions, streams, conn, opening>>

\* subscribeToStatusUpdates(listener): push, then call it with the snapshot
SubscribeToStatusUpdates(listener) ==
  /\ UNCHANGED <<syncVars, queryVars, callVars, appVars>>
  /\ listener \notin Range(listeners)
  /\ listeners' = Append(listeners, listener)
  /\ delivered' = <<[listener |-> listener, statuses |-> relayStatuses]>>
  /\ UNCHANGED <<relayStatuses, targetRelays, reconnectTimeouts, timers,
                 subscriptions, streams, mutexQueue, conn, opening, lastCall, allCall>>

\* the function subscribeToStatusUpdates returned is called
UnsubscribeFromStatusUpdates(listener) ==
  /\ UNCHANGED <<syncVars, queryVars, callVars, appVars>>
  /\ listener \in Range(listeners)
  /\ listeners' = SelectSeq(listeners, LAMBDA l : l # listener)
  /\ delivered' = <<>>
  /\ UNCHANGED <<relayStatuses, targetRelays, reconnectTimeouts, timers,
                 subscriptions, streams, mutexQueue, conn, opening, lastCall, allCall>>

\* cleanup(): clear the reconnect timeouts, close and drop the
\* subscriptions, call disconnectAllRelays() without awaiting it
Cleanup ==
  /\ UNCHANGED <<syncVars, queryVars, callVars, appVars>>
  /\ Quiet
  /\ Len(mutexQueue) < MaxQueue
  /\ timers' = {}
  /\ reconnectTimeouts' = {}
  /\ streams' = UnsubAll(subscriptions)
  /\ subscriptions' = {}
  /\ \E order \in Orders(UrlsToDisconnect) :
       mutexQueue' = mutexQueue \o DisconnectCalls(order, "cleanup")
  /\ UNCHANGED <<relayStatuses, targetRelays, conn, opening, lastCall, allCall>>

RelayInit ==
  /\ relayStatuses = [u \in Urls |-> Absent]
  /\ targetRelays = {}
  /\ reconnectTimeouts = {}
  /\ timers = {}
  /\ subscriptions = {}
  /\ streams = [id \in SubIds |-> NoStream]
  /\ mutexQueue = <<>>
  /\ conn = NoConn
  /\ opening = [u \in Urls |-> 0]
  /\ lastCall = NoCall
  /\ allCall = NoAll
  /\ listeners = <<>>
  /\ delivered = <<>>

RelayNext ==
  \/ \E urls \in UrlLists : CallConnect(urls)
  \/ \E url \in Urls : CallDisconnect(url)
  \/ \E url \in Urls : TimerFires(url)
  \/ ConnectBegins
  \/ \E url \in Urls : AttemptSucceeds(url)
  \/ \E url \in Urls, msg \in ErrMsgs : AttemptFails(url, msg)
  \/ ConnectSettles
  \/ \E url \in Urls, closeThrows \in BOOLEAN : DisconnectFromRelay(url, closeThrows)
  \/ CallDisconnectAll

\* ------------------------------------------------------------------------
\* Bookmark service: values
\* ------------------------------------------------------------------------
\* longest answer of the bookmark query of fetchBookmarks
MaxEvents == 3
\* longest answer of the refresh query of fetchBookmarks
MaxRefreshed == 1
\* longest answer of the latest-timestamp query of deleteBookmark
MaxLatest == 2

\* a field that is undefined / a key that is missing
Undef == "undefined"

\* created_at values relays may hold for the author
Stamps == {100, 120, 150}

\* tag lists the author's records may carry: the list of the end-to-end
\* scenario, a list with defaults and a foreign tag, a list with a relay hint
AuthorTagLists ==
  { << <<"r", "https://a.com", "A">>, <<"e", "evt1", "", "Note A">> >>,
    << <<"e", "evt3">>, <<"r", "https://b.com/my-page">>, <<"t", "topic">> >>,
    << <<"e", "evt2", "wss://hint", "Note B">>, <<"r", "https://a.com", "A">> >> }

\* event.id: determined by the content that is signed
RecordId(created_at, tags) == ToString(<<created_at, tags>>)

Record(created_at, tags) ==
  [id |-> RecordId(created_at, tags), created_at |-> created_at, tags |-> tags]

NoEvent == [id |-> "none", created_at |-> 0, tags |-> <<>>]

\* the author's kind 10003 records that may exist on some relay
Records == {Record(t, tags) : t \in Stamps, tags \in {<<>>, listTags}}

\* pool.querySync rejected
Throws == <<[id |-> "throws", created_at |-> 0, tags |-> <<>>]>>

\* the refresh query was not issued
NotAsked == <<[id |-> "not asked", created_at |-> 0, tags |-> <<>>]>>

QueryAnswers == SeqsUpTo(Records, MaxEvents) \cup {Throws}

\* the list fetchBookmarks returns when no relay could be reached
MockBookmarks ==
  << [id |-> "https://example.com/1", type |-> "website",
      title |-> "Example Website 1", url |-> "https://example.com/1",
      eventId |-> "mock-event-1", relayHint |-> Undef, createdAt |-> 0],
     [id |-> "https://example.com/2", type |-> "website",
      title |-> "Example Website 2", url |-> "https://example.com/2",
      eventId |-> "mock-event-2", relayHint |-> Undef, createdAt |-> -3600] >>

\* ------------------------------------------------------------------------
\* Bookmark service: pure functions
\* ------------------------------------------------------------------------
MaxOf(S) == CHOOSE x \in S : \A y \in S : y <= x

Max2(a, b) == IF a >= b THEN a ELSE b

\* isValidUrl: new URL(urlString) parses and the protocol is http: or https:
IsValidUrl(urlString) ==
  urlString \in {"https://a.com", "https://b.com/my-page",
                 "https://example.com/1", "https://example.com/2"}

\* extractTitleFromUrl: hostname without 'www.', then ' - ' and the last path
\* segment in Title Case when the path is not '/'
ExtractTitleFromUrl(url) ==
  CASE url = "https://a.com" -> "a.com"
    [] url = "https://b.com/my-page" -> "b.com - My Page"
    [] url = "https://example.com/1" -> "example.com - 1"
    [] url = "https://example.com/2" -> "example.com - 2"
    [] OTHER -> url

\* variant: the entry id is derived from the record and the tag's position
ParseTag_IdFromRecord(tag, index, ev) ==
  LET createdAt == ev.created_at - index * 60
      id == ToString(<<ev.id, index>>)
  IN IF Len(tag) >= 2 /\ tag[1] = "r"
     THEN IF IsValidUrl(tag[2])
          THEN << [id |-> id, type |-> "website",
                   title |-> IF Len(tag) > 2 THEN tag[3]
                             ELSE ExtractTitleFromUrl(tag[2]),
                   url |-> tag[2], eventId |-> ev.id, relayHint |-> Undef,
                   createdAt |-> createdAt] >>
          ELSE <<>>
     ELSE IF Len(tag) >= 2 /\ tag[1] = "e"
     THEN << [id |-> id, type |-> "note",
              title |-> IF Len(tag) > 3 THEN tag[4] ELSE "Nostr Note",
              url |-> Undef, eventId |-> tag[2],
              relayHint |-> IF Len(tag) > 2 THEN tag[3] ELSE Undef,
              createdAt |-> createdAt] >>
     ELSE <<>>

\* the body of event.tags.forEach in parseBookmarkEvent; index counts from 0
ParseTag(tag, index, ev) ==
  LET createdAt == ev.created_at - index * 60
  IN IF Len(tag) >= 2 /\ tag[1] = "r"
     THEN IF IsValidUrl(tag[2])
          THEN << [id |-> tag[2], type |-> "website",
                   title |-> IF Len(tag) > 2 THEN tag[3]
                             ELSE ExtractTitleFromUrl(tag[2]),
                   url |-> tag[2], eventId |-> ev.id, relayHint |-> Undef,
                   createdAt |-> createdAt] >>
          ELSE <<>>
     ELSE IF Len(tag) >= 2 /\ tag[1] = "e"
     THEN << [id |-> tag[2], type |-> "note",
              title |-> IF Len(tag) > 3 THEN tag[4] ELSE "Nostr Note",
              url |-> Undef, eventId |-> tag[2],
              relayHint |-> IF Len(tag) > 2 THEN tag[3] ELSE Undef,
              createdAt |-> createdAt] >>
     ELSE <<>>

RECURSIVE ParseTags(_, _, _)
ParseTags(tags, index, ev) ==
  IF index >= Len(tags) THEN <<>>
  ELSE ParseTag(tags[index + 1], index, ev) \o ParseTags(tags, index + 1, ev)

\* Array.prototype.sort with (a, b) => b.key - a.key over [key, value]
\* pairs: stable, largest key first
RECURSIVE InsertDesc(_, _)
InsertDesc(x, sorted) ==
  IF sorted = <<>> THEN <<x>>
  ELSE IF Head(sorted).key >= x.key
       THEN <<Head(sorted)>> \o InsertDesc(x, Tail(sorted))
       ELSE <<x>> \o sorted

RECURSIVE SortDesc(_)
SortDesc(q) ==
  IF q = <<>> THEN <<>>
  ELSE InsertDesc(q[Len(q)], SortDesc(SubSeq(q, 1, Len(q) - 1)))

Values(pairs) == [i \in 1..Len(pairs) |-> pairs[i].value]

\* variant: the records are used in the order the relays returned them
SortEvents_Unsorted(events) ==
  events

\* [...events].sort((a, b) => b.created_at - a.created_at)
SortEvents(events) ==
  Values(SortDesc([i \in 1..Len(events) |->
                     [key |-> events[i].created_at, value |-> events[i]]]))

\* variant: the comparator is a.createdAt - b.createdAt
ParseBookmarkEvent_OldestFirst(ev) ==
  LET bookmarks == ParseTags(ev.tags, 0, ev)
  IN Values(SortDesc([i \in 1..Len(bookmarks) |->
                        [key |-> 0 - bookmarks[i].createdAt,
                         value |-> bookmarks[i]]]))

\* parseBookmarkEvent
ParseBookmarkEvent(ev) ==
  LET bookmarks == ParseTags(ev.tags, 0, ev)
  IN Values(SortDesc([i \in 1..Len(bookmarks) |->
                        [key |-> bookmarks[i].createdAt, value |-> bookmarks[i]]]))

\* JavaScript truthiness of an optional string
Truthy(str) == str # Undef /\ str # ""

\* the body of updatedBookmarks.forEach in deleteBookmark
EncodeBookmark(bookmark) ==
  IF bookmark.type = "website"
  THEN << <<"r", bookmark.url, bookmark.title>> >>
  ELSE IF bookmark.type = "note"
  THEN << <<"e", bookmark.eventId>>
          \o (IF Truthy(bookmark.relayHint) THEN <<bookmark.relayHint>> ELSE <<>>)
          \o (IF bookmark.title # Undef THEN <<bookmark.title>> ELSE <<>>) >>
  ELSE <<>>

RECURSIVE EncodeBookmarks(_)
EncodeBookmarks(bookmarks) ==
  IF bookmarks = <<>> THEN <<>>
  ELSE EncodeBookmark(Head(bookmarks)) \o EncodeBookmarks(Tail(bookmarks))

\* currentBookmarks.filter(b => b.id !== bookmarkId)
RECURSIVE WithoutId(_, _)
WithoutId(bookmarks, id) ==
  IF bookmarks = <<>> THEN <<>>
  ELSE (IF Head(bookmarks).id # id THEN <<Head(bookmarks)>> ELSE <<>>)
       \o WithoutId(Tail(bookmarks), id)

\* variant: the lookup always reports the bookmark as present
BookmarkFound_Always(bookmarks, id) ==
  TRUE

\* currentBookmarks.find(b => b.id === bookmarkId) is defined
BookmarkFound(bookmarks, id) ==
  \E i \in 1..Len(bookmarks) : bookmarks[i].id = id

\* variant: the new timestamp forgets the + 1
NewTimestamp_NoIncrement(latestTimestamp, now) ==
  Max2(latestTimestamp, now)

\* Math.max(latestTimestamp + 1, currentTime)
NewTimestamp(latestTimestamp, now) ==
  Max2(latestTimestamp + 1, now)

\* latestTimestamp after the lookup: sortedEvents[0].created_at, or 0 when
\* the query returned nothing, threw, or no relay was reachable
LatestTimestamp(events) ==
  IF events = Throws \/ events = <<>> THEN 0
  ELSE SortEvents(events)[1].created_at

StampsOf(events) ==
  IF events = Throws \/ events = NotAsked THEN {}
  ELSE {events[i].created_at : i \in 1..Len(events)}

\* the record fetchBookmarks parses, given the answers of its queries
SelectCanonical(events, refreshed) ==
  LET sortedEvents == SortEvents(events)
      first == sortedEvents[1]
  IN IF refreshed = NotAsked \/ refreshed = Throws \/ refreshed = <<>>
     THEN first
     ELSE LET refreshSortedEvents == SortEvents(refreshed)
          IN IF refreshSortedEvents[1].id # first.id
                /\ Len(refreshSortedEvents[1].tags) >= Len(first.tags)
             THEN refreshSortedEvents[1]
             ELSE first

\* variant: the re-query does not depend on the size of the result set
NeedsRefresh_AloneToo(events) ==
  LET sortedEvents == SortEvents(events)
  IN Len(sortedEvents[1].tags) = 0

\* the condition under which fetchBookmarks re-queries
NeedsRefresh(events) ==
  LET sortedEvents == SortEvents(events)
  IN Len(sortedEvents[1].tags) = 0 /\ Len(sortedEvents) > 1

\* relaysToUse of fetchBookmarks before ensureRelayConnections
RelaysToUse ==
  IF GetConnectedRelays # {} THEN GetConnectedRelays ELSE {"wss://nos.lol", "wss://relay.damus.io"}

\* ------------------------------------------------------------------------
\* Bookmark service: actions
\* ------------------------------------------------------------------------
\* the user opens the list: fetchBookmarks(publicKey)
StartFetch ==
  /\ UNCHANGED <<relayVars, queryVars, callVars, appVars>>
  /\ pc = "idle"
  /\ pc' = "querying"
  /\ op' = "fetch"
  /\ UNCHANGED <<bookmarkId, eventsToProcess, refreshedEvents, bookmarkListEvent,
                 currentBookmarks, observed, stampEvents, currentTime, event,
                 signed, publishedTo, activeRelays, successes,
                 bookmarksAfterDeletion, syncError, listTags>>

\* the user deletes an entry: deleteBookmark(bookmarkId, publicKey) calls
\* fetchBookmarks
StartDelete ==
  /\ UNCHANGED <<relayVars, queryVars, callVars, appVars>>
  /\ pc = "idle"
  /\ pc' = "querying"
  /\ op' = "delete"
  /\ UNCHANGED <<bookmarkId, eventsToProcess, refreshedEvents, bookmarkListEvent,
                 currentBookmarks, observed, stampEvents, currentTime, event,
                 signed, publishedTo, activeRelays, successes,
                 bookmarksAfterDeletion, syncError, listTags>>

\* fetchBookmarks up to the choice of the record: ensureRelayConnections
\* reaches the relays in ensured, the query answers first and, when that is
\* empty, the retried query answers second
FetchQuery ==
  /\ UNCHANGED <<relayVars, queryVars, callVars, appVars>>
  /\ pc = "querying"
  /\ \E ensured \in SUBSET RelaysToUse, first \in QueryAnswers :
     \E second \in IF first = <<>> THEN QueryAnswers ELSE {<<>>} :
     LET events == IF first = <<>> THEN second ELSE first
     IN IF ensured = {}
        THEN /\ currentBookmarks' = MockBookmarks
             /\ pc' = "selected"
             /\ UNCHANGED <<eventsToProcess, observed>>
        ELSE IF first = Throws \/ events = Throws \/ events = <<>>
        THEN /\ currentBookmarks' = <<>>
             /\ pc' = "selected"
             /\ UNCHANGED <<eventsToProcess, observed>>
        ELSE /\ eventsToProcess' = events
             /\ observed' = observed \cup StampsOf(events)
             /\ pc' = "selecting"
             /\ UNCHANGED currentBookmarks
  /\ UNCHANGED <<op, bookmarkId, refreshedEvents, bookmarkListEvent, stampEvents,
                 currentTime, event, signed, publishedTo, activeRelays, successes,
                 bookmarksAfterDeletion, syncError, listTags>>

\* fetchBookmarks from the sort to the parsed list: pick the newest record,
\* re-query when it looks stale (answer: what the refresh query returned,
\* nothing also when ensureRelayConnections reached no relay), parse the record
FetchSelect ==
  /\ UNCHANGED <<relayVars, queryVars, callVars, appVars>>
  /\ pc = "selecting"
  /\ \E answer \in IF NeedsRefresh(eventsToProcess) THEN (SeqsUpTo(Records, MaxRefreshed) \cup {Throws})
                    ELSE {NotAsked} :
     LET chosen == SelectCanonical(eventsToProcess, answer)
     IN /\ refreshedEvents' = answer
        /\ observed' = observed \cup StampsOf(answer)
        /\ bookmarkListEvent' = chosen
        /\ currentBookmarks' = ParseBookmarkEvent(chosen)
  /\ pc' = "selected"
  /\ UNCHANGED <<op, bookmarkId, eventsToProcess, stampEvents, currentTime,
                 event, signed, publishedTo, activeRelays, successes,
                 bookmarksAfterDeletion, syncError, listTags>>

\* fetchBookmarks returns its list: to the popup, or to deleteBookmark
FetchReturns ==
  /\ UNCHANGED <<relayVars, queryVars, callVars, appVars>>
  /\ pc = "selected"
  /\ pc' = IF op = "fetch" THEN "done" ELSE "fetched"
  /\ eventsToProcess' = <<>>
  /\ refreshedEvents' = NotAsked
  /\ UNCHANGED <<op, bookmarkId, bookmarkListEvent, currentBookmarks, observed,
                 stampEvents, currentTime, event, signed, publishedTo, activeRelays, successes,
                 bookmarksAfterDeletion, syncError,
                 listTags>>

\* deleteBookmark(id, ...) from the return of fetchBookmarks to the new
\* tags: the two not-found checks
DeleteCheck ==
  /\ UNCHANGED <<relayVars, queryVars, callVars, appVars>>
  /\ pc = "fetched"
  /\ \E id \in {"https://a.com", "evt1", "evt2", "evt3", "https://example.com/1", "no-such-id"} :
     LET updatedBookmarks == WithoutId(currentBookmarks, id)
     IN /\ bookmarkId' = id
        /\ IF ~BookmarkFound(currentBookmarks, id)
           THEN /\ syncError' = "not found"
                /\ pc' = "failed"
                /\ UNCHANGED event
           ELSE IF Len(currentBookmarks) = Len(updatedBookmarks)
           THEN /\ syncError' = "Failed to remove bookmark from list"
                /\ pc' = "failed"
                /\ UNCHANGED event
           ELSE /\ event' = [NoEvent EXCEPT !.id = "unsigned",
                                            !.tags = EncodeBookmarks(updatedBookmarks)]
                /\ pc' = "stamping"
                /\ UNCHANGED syncError
  /\ UNCHANGED <<op, eventsToProcess, refreshedEvents, bookmarkListEvent,
                 currentBookmarks, observed, stampEvents, currentTime, signed,
                 publishedTo, activeRelays, successes,
                 bookmarksAfterDeletion, listTags>>

\* deleteBookmark: the lookup of the latest timestamp (answer: what its
\* query returned, nothing when no relay is connected or none was reached)
\* and the timestamp of the new event
FindLatestTimestamp ==
  /\ UNCHANGED <<relayVars, queryVars, callVars, appVars>>
  /\ pc = "stamping"
  /\ \E answer \in IF GetConnectedRelays = {} THEN {<<>>}
                    ELSE SeqsUpTo({Record(t, listTags) : t \in Stamps}, MaxLatest)
                         \cup {Throws},
        now \in {99, 200} :
        /\ stampEvents' = StampsOf(answer)
        /\ observed' = observed \cup StampsOf(answer)
        /\ currentTime' = now
        /\ event' = [event EXCEPT !.created_at =
                                     NewTimestamp(LatestTimestamp(answer), now)]
  /\ pc' = "signing"
  /\ UNCHANGED <<op, bookmarkId, eventsToProcess, refreshedEvents,
                 bookmarkListEvent, currentBookmarks, signed, publishedTo, activeRelays, successes,
                 bookmarksAfterDeletion,
                 syncError, listTags>>

\* the verification fetch was not made
NotFetched == <<[id |-> "not fetched"]>>

\* variant: the publishes run one after the other and a rejection ends them;
\* only the rejecting relay has been attempted
PublishAttempts_UntilRejection(active, rejecting) ==
  IF rejecting = {} THEN active ELSE rejecting

\* activeRelays.map(relay => new Promise(...)): one publish per active relay,
\* each inside its own try / catch (rejecting: the relays whose pool.publish
\* throws)
PublishAttempts(active, rejecting) ==
  active

\* variant: the publish step never throws
PublishOutcome_NeverThrows(active, accepted) ==
  "none"

\* variant: the call throws whenever some relay rejected
PublishOutcome_AllMustAccept(active, accepted) ==
  IF active = {} THEN "No connected relays available for publishing"
  ELSE IF accepted # active THEN "Failed to publish replaceable event to any relays"
  ELSE "none"

\* the error of the publish step: activeRelays.length === 0, then
\* successes.length > 0
PublishOutcome(active, accepted) ==
  IF active = {} THEN "No connected relays available for publishing"
  ELSE IF accepted = {} THEN "Failed to publish replaceable event to any relays"
  ELSE "none"

\* deleteBookmark: sign the event and publish it to every relay that
\* ensureRelayConnections reaches (active); rejecting: the relays whose
\* pool.publish throws
SignAndPublish ==
  /\ UNCHANGED <<relayVars, queryVars, callVars, appVars>>
  /\ pc = "signing"
  /\ \E signs \in BOOLEAN :
       IF ~signs
       THEN /\ syncError' = "signEvent rejected"
            /\ pc' = "failed"
            /\ UNCHANGED <<signed, event, publishedTo, activeRelays, successes>>
       ELSE /\ signed' = TRUE
            /\ event' = [event EXCEPT !.id = RecordId(event.created_at, event.tags)]
            /\ \E active \in SUBSET GetConnectedRelays :
               \E rejecting \in SUBSET active :
               LET attempted == PublishAttempts(active, rejecting)
                   accepted == attempted \ rejecting
                   error == PublishOutcome(active, accepted)
               IN /\ activeRelays' = active
                  /\ publishedTo' = attempted
                  /\ successes' = accepted
                  /\ syncError' = IF error = "none" THEN syncError ELSE error
                  /\ pc' = IF error = "none" THEN "verifying" ELSE "failed"
  /\ UNCHANGED <<op, bookmarkId, eventsToProcess, refreshedEvents,
                 bookmarkListEvent, currentBookmarks, observed, stampEvents,
                 currentTime, bookmarksAfterDeletion, listTags>>

\* variant: a bookmark that is still listed makes the call throw
VerifyOutcome_ThrowsWhenListed(stillExists) ==
  IF stillExists THEN "failed" ELSE "done"

\* if (stillExists) { console.error(...) } else { console.log(...) }
VerifyOutcome(stillExists) ==
  "done"

\* deleteBookmark: after the settling delay fetchBookmarks runs again;
\* stillExists: its list still has bookmarkId (logged, never thrown)
Verify ==
  /\ UNCHANGED <<relayVars, queryVars, callVars, appVars>>
  /\ pc = "verifying"
  /\ \E fetched \in {<<>>, currentBookmarks, ParseBookmarkEvent(event), MockBookmarks} :
       LET stillExists == \E i \in 1..Len(fetched) : fetched[i].id = bookmarkId
       IN /\ bookmarksAfterDeletion' = fetched
          /\ pc' = VerifyOutcome(stillExists)
  /\ UNCHANGED <<op, bookmarkId, eventsToProcess, refreshedEvents,
                 bookmarkListEvent, currentBookmarks, observed, stampEvents,
                 currentTime, event, signed, publishedTo, activeRelays, successes,
                 syncError, listTags>>

SyncIdle ==
  /\ pc = "idle"
  /\ op = "none"
  /\ bookmarkId = Undef
  /\ eventsToProcess = <<>>
  /\ refreshedEvents = NotAsked
  /\ bookmarkListEvent = NoEvent
  /\ currentBookmarks = <<>>
  /\ observed = {}
  /\ stampEvents = {}
  /\ currentTime = 0
  /\ event = NoEvent
  /\ signed = FALSE
  /\ publishedTo = {}
  /\ activeRelays = {}
  /\ successes = {}
  /\ bookmarksAfterDeletion = NotFetched
  /\ syncError = "none"

SyncNext ==
  \/ StartFetch
  \/ StartDelete
  \/ FetchQuery
  \/ FetchSelect
  \/ FetchReturns
  \/ DeleteCheck
  \/ FindLatestTimestamp
  \/ SignAndPublish
  \/ Verify

\* ------------------------------------------------------------------------
\* Specifications
\* ------------------------------------------------------------------------
\* ------------------------------------------------------------------------
\* Relay service: the filter subscribe builds from several filters
\* ------------------------------------------------------------------------

MaxFilters == 2

\* an optional field of a Filter: set says whether the key is present
Missing(empty) == [set |-> FALSE, val |-> empty]

Present(v) == [set |-> TRUE, val |-> v]

\* the list fields one input filter carries: none, or one of the five
ListShapes ==
  LET none == [kinds |-> Missing(<<>>), authors |-> Missing(<<>>),
               ids |-> Missing(<<>>), e |-> Missing(<<>>), p |-> Missing(<<>>)]
  IN {none,
      [none EXCEPT !.kinds = Present(<<10003>>)],
      [none EXCEPT !.authors = Present(<<"pk1">>)],
      [none EXCEPT !.ids = Present(<<"n1">>)],
      [none EXCEPT !.e = Present(<<"n2">>)],
      [none EXCEPT !.p = Present(<<"pk2">>)]}

FilterInputs ==
  {[kinds |-> l.kinds, authors |-> l.authors, ids |-> l.ids, e |-> l.e,
    p |-> l.p, since |-> s, until |-> u, limit |-> n] :
     l \in ListShapes, s \in {Missing(0), Present(0), Present(50)},
     u \in {Missing(0), Present(90)}, n \in {Missing(0), Present(10)}}

NotMerged == [built |-> FALSE]

\* filters.flatMap(f => f.field || [])
RECURSIVE FlatMap(_, _)
FlatMap(fs, field) ==
  IF fs = <<>> THEN <<>>
  ELSE (IF Head(fs)[field].set THEN Head(fs)[field].val ELSE <<>>)
         \o FlatMap(Tail(fs), field)

\* f.since || Infinity: an absent since and a since of 0 both give Infinity
SinceOrInfinity(f) ==
  IF f.since.set /\ f.since.val # 0 THEN [inf |-> FALSE, val |-> f.since.val]
  ELSE [inf |-> TRUE, val |-> 0]

\* f.until || 0, f.limit || 0
OrZero(x) == IF x.set THEN x.val ELSE 0

\* Math.min(...xs) over numbers that may be Infinity; Infinity for no number
MathMin(xs) ==
  LET finite == {x.val : x \in {y \in xs : ~y.inf}}
  IN IF finite = {} THEN [inf |-> TRUE, val |-> 0]
     ELSE [inf |-> FALSE,
           val |-> CHOOSE m \in finite : \A n \in finite : m <= n]

\* Math.max(...xs) over finite numbers; -Infinity for no number
MathMax(xs) ==
  IF xs = {} THEN [neginf |-> TRUE, val |-> 0]
  ELSE [neginf |-> FALSE, val |-> CHOOSE m \in xs : \A n \in xs : m >= n]

\* const mergedFilter: Filter = { ... }
MergedFilter(fs) ==
  [built |-> TRUE,
   kinds |-> FlatMap(fs, "kinds"),
   authors |-> FlatMap(fs, "authors"),
   ids |-> FlatMap(fs, "ids"),
   e |-> FlatMap(fs, "e"),
   p |-> FlatMap(fs, "p"),
   since |-> MathMin({SinceOrInfinity(fs[i]) : i \in DOMAIN fs}),
   until |-> MathMax({OrZero(fs[i].until) : i \in DOMAIN fs}),
   limit |-> MathMax({OrZero(fs[i].limit) : i \in DOMAIN fs})]

\* subscribe builds the merged filter from its argument
MergeFilters ==
  /\ ~mergedFilter.built
  /\ mergedFilter' = MergedFilter(filters)
  /\ UNCHANGED <<filters, discovery, noteQuery, relayVars, syncVars, callVars, appVars>>

\* no subscribe call has built a filter
MergeIdle ==
  /\ filters = <<>>
  /\ mergedFilter = NotMerged

\* ------------------------------------------------------------------------
\* Timed queries: fetchUserRelays and fetchNoteContentsForBookmarks
\* ------------------------------------------------------------------------

\* callbacks of one kind the pool delivers to one query
MaxCallbacks == 2

\* the promise before resolve
Pending == [done |-> FALSE, value |-> {}]

\* resolve(value): only the first call settles the promise
Resolve(result, value) ==
  IF result.done THEN result ELSE [done |-> TRUE, value |-> value]

\* event.content of a kind:3 event: text that is not JSON, JSON that is not
\* an object, or an object mapping urls to settings
Contents ==
  {[json |-> "invalid", entries |-> {}],
   [json |-> "number", entries |-> {}],
   [json |-> "object", entries |-> {}],
   [json |-> "object",
    entries |-> {[scheme |-> "wss", host |-> "a", read |-> "missing", write |-> "false"],
                 [scheme |-> "http", host |-> "c", read |-> "true", write |-> "true"]}]}

\* variant: entries of every scheme are kept
ParseRelayList_AnyScheme(content) ==
  IF content.json # "object" THEN {}
  ELSE {[scheme |-> x.scheme, host |-> x.host,
         read |-> x.read # "false", write |-> x.write # "false"] :
          x \in content.entries}

\* the onevent body: JSON.parse, the object test, the mapping of the
\* entries and the 'wss://' filter; a failure of the first two gives []
ParseRelayList(content) ==
  IF content.json # "object" THEN {}
  ELSE {[scheme |-> x.scheme, host |-> x.host,
         read |-> x.read # "false", write |-> x.write # "false"] :
          x \in {y \in content.entries : y.scheme = "wss"}}

NoDiscovery ==
  [pc |-> "idle", eventReceived |-> FALSE, events |-> <<>>, closes |-> 0,
   timer |-> FALSE, poolOpen |-> FALSE, result |-> Pending]

\* fetchUserRelays(pubkey): subscribe on the discovery relays and set the
\* timeout
FetchUserRelays ==
  /\ discovery.pc = "idle"
  /\ noteQuery.pc = "idle"
  /\ discovery' = [NoDiscovery EXCEPT !.pc = "waiting", !.timer = TRUE,
                                      !.poolOpen = TRUE]
  /\ UNCHANGED <<filters, mergedFilter, noteQuery, relayVars, syncVars, callVars, appVars>>

\* onevent: a relay delivers a kind:3 event
DiscoveryOnEvent(content) ==
  /\ discovery.pc = "waiting"
  /\ discovery.poolOpen
  /\ Len(discovery.events) < MaxCallbacks
  /\ discovery' = [discovery EXCEPT
                     !.eventReceived = TRUE,
                     !.events = Append(@, content),
                     !.closes = @ + 1,
                     !.result = Resolve(@, ParseRelayList(content))]
  /\ UNCHANGED <<filters, mergedFilter, noteQuery, relayVars, syncVars, callVars, appVars>>

\* onclose: the pool reports the subscription closed
DiscoveryOnClose ==
  /\ discovery.pc = "waiting"
  /\ discovery.poolOpen
  /\ discovery' = [discovery EXCEPT
                     !.poolOpen = FALSE,
                     !.result = IF discovery.eventReceived THEN @
                                ELSE Resolve(@, {})]
  /\ UNCHANGED <<filters, mergedFilter, noteQuery, relayVars, syncVars, callVars, appVars>>

\* the discovery timeout fires
DiscoveryTimer ==
  /\ discovery.pc = "waiting"
  /\ discovery.timer
  /\ discovery' = [discovery EXCEPT
                     !.timer = FALSE,
                     !.closes = IF discovery.eventReceived THEN @ ELSE @ + 1]
  /\ UNCHANGED <<filters, mergedFilter, noteQuery, relayVars, syncVars, callVars, appVars>>

NoNoteQuery ==
  [pc |-> "idle", sub |-> "null", expectedEoseCount |-> 0,
   eoseReceivedCount |-> 0, timeoutHit |-> FALSE, timer |-> FALSE,
   noteEvents |-> {}, closes |-> 0, poolOpen |-> FALSE, result |-> Pending]

\* completeSubscription(): close the subscription and resolve, once
CompleteSubscription(q) ==
  IF q.sub # "null"
  THEN [q EXCEPT !.sub = "null", !.closes = @ + 1,
                 !.result = Resolve(@, q.noteEvents)]
  ELSE q

\* fetchNoteContentsForBookmarks(bookmarks, ...): return at once without note
\* bookmarks or connected relays; else set the timer and subscribe, which
\* may throw
FetchNoteContents(hasNotes, relays, throws) ==
  /\ noteQuery.pc = "idle"
  /\ discovery.pc = "idle"
  /\ noteQuery' =
       IF ~hasNotes \/ relays = {}
       THEN [NoNoteQuery EXCEPT !.pc = "returned",
                                !.result = Resolve(@, {})]
       ELSE IF throws
       THEN [NoNoteQuery EXCEPT !.pc = "returned",
                                !.expectedEoseCount = Cardinality(relays),
                                !.result = Resolve(@, {})]
       ELSE [NoNoteQuery EXCEPT !.pc = "waiting", !.sub = "open",
                                !.expectedEoseCount = Cardinality(relays),
                                !.timer = TRUE, !.poolOpen = TRUE]
  /\ UNCHANGED <<filters, mergedFilter, discovery, relayVars, syncVars, callVars, appVars>>

\* onevent: noteEvents.push(event)
NoteOnEvent(id) ==
  /\ noteQuery.pc = "waiting"
  /\ noteQuery.poolOpen
  /\ noteQuery' = [noteQuery EXCEPT !.noteEvents = @ \cup {id}]
  /\ UNCHANGED <<filters, mergedFilter, discovery, relayVars, syncVars, callVars, appVars>>

\* oneose
NoteOnEose ==
  /\ noteQuery.pc = "waiting"
  /\ noteQuery.poolOpen
  /\ noteQuery.eoseReceivedCount < MaxCallbacks
  /\ LET q == [noteQuery EXCEPT !.eoseReceivedCount = @ + 1]
     IN noteQuery' =
          IF q.eoseReceivedCount >= q.expectedEoseCount /\ ~q.timeoutHit
          THEN CompleteSubscription([q EXCEPT !.timer = FALSE])
          ELSE q
  /\ UNCHANGED <<filters, mergedFilter, discovery, relayVars, syncVars, callVars, appVars>>

\* onclose
NoteOnClose ==
  /\ noteQuery.pc = "waiting"
  /\ noteQuery.poolOpen
  /\ LET q == [noteQuery EXCEPT !.poolOpen = FALSE]
     IN noteQuery' =
          IF ~q.timeoutHit /\ q.sub # "null"
          THEN CompleteSubscription([q EXCEPT !.timer = FALSE])
          ELSE q
  /\ UNCHANGED <<filters, mergedFilter, discovery, relayVars, syncVars, callVars, appVars>>

\* the query timeout fires
NoteTimer ==
  /\ noteQuery.pc = "waiting"
  /\ noteQuery.timer
  /\ noteQuery' = CompleteSubscription([noteQuery EXCEPT !.timer = FALSE,
                                                         !.timeoutHit = TRUE])
  /\ UNCHANGED <<filters, mergedFilter, discovery, relayVars, syncVars, callVars, appVars>>

\* no timed query is running
QueryIdle ==
  /\ discovery = NoDiscovery
  /\ noteQuery = NoNoteQuery

\* ------------------------------------------------------------------------
\* parseBookmarkEvent on its own
\* ------------------------------------------------------------------------
\* longest tag list of the event handed to parseBookmarkEvent
MaxTags == 3

\* tags a kind 10003 event may carry: bookmarks of both kinds with and
\* without the optional fields, a foreign kind, urls that are not http(s)
\* or do not parse, and tags that are too short
TagInputs ==
  { <<"r", "https://a.com", "A">>, <<"r", "https://b.com/my-page">>,
    <<"e", "evt1", "", "Note A">>, <<"e", "evt3">>,
    <<"t", "topic">>, <<"r", "ftp://a.com">>, <<"r", "not a url">>,
    <<"r">>, <<>> }

\* one call of parseBookmarkEvent
Parse ==
  /\ ~parse.returned
  /\ parse' = [parse EXCEPT !.bookmarks = ParseBookmarkEvent(parse.event),
                            !.returned = TRUE]
  /\ UNCHANGED <<relayVars, syncVars, queryVars, callVars, storage, popup, deleting,
               refreshing, race>>

\* ------------------------------------------------------------------------
\* AuthService and the popup component
\* ------------------------------------------------------------------------
\* fetchAndSetBookmarks calls that may be in flight together
MaxRefreshing == 1

Null == "null"

\* login: nip19.decode for a key that starts with 'nsec', otherwise the test
\* /^[a-f0-9]{64}$/ and hexToBytes; "invalid" when the branch throws
KeyBytes(privateKey) ==
  CASE privateKey \in {"nsec1k1", "hexk1"} -> "k1"
    [] privateKey \in {"nsec1k2", "hexk2"} -> "k2"
    [] OTHER -> "invalid"

\* bytesToHex(pkBytes)
BytesToHex(pkBytes) ==
  CASE pkBytes = "k1" -> "hexk1"
    [] pkBytes = "k2" -> "hexk2"

\* getPublicKey(pkBytes)
GetPublicKey(pkBytes) ==
  CASE pkBytes = "k1" -> "pubk1"
    [] pkBytes = "k2" -> "pubk2"

\* storage.remove([storageKey, secretKey, 'lastLogin']); lastLogin 0: no key
EmptyStorage == [nostrUserPublicKey |-> Undef, secretKey |-> Undef, lastLogin |-> 0]

\* the storageData object login hands to storage.set
StorageData(pkBytes, now) ==
  [nostrUserPublicKey |-> GetPublicKey(pkBytes), secretKey |-> BytesToHex(pkBytes),
   lastLogin |-> now]

\* the useState initial values of Popup and Login
InitialPopup ==
  [publicKey |-> Null, bookmarks |-> <<>>, isBookmarksLoading |-> FALSE,
   bookmarksError |-> Null, error |-> Null]

NotDeleting ==
  [pc |-> "idle", bookmarkId |-> Undef, publicKey |-> Null, found |-> FALSE,
   bookmarkToDelete |-> NoEvent, before |-> <<>>]

\* prev => [...prev, bookmarkToDelete].sort((a, b) => b.createdAt - a.createdAt)
RevertDelete(prev, bookmarkToDelete) ==
  LET list == Append(prev, bookmarkToDelete)
  IN Values(SortDesc([i \in 1..Len(list) |->
                        [key |-> list[i].createdAt, value |-> list[i]]]))

\* Login.handleLogin with AuthService.login and, when that returns,
\* Popup.handleLoginSuccess up to the start of fetchAndSetBookmarks
\* (setRejects: storage.set rejects; initThrows: initializeForUser throws)
HandleLogin(privateKey, now, setRejects, initThrows) ==
  /\ popup.publicKey = Null
  /\ refreshing < MaxRefreshing
  /\ IF privateKey = ""
     THEN /\ popup' = [popup EXCEPT !.error = "Private key cannot be empty."]
          /\ UNCHANGED <<storage, refreshing>>
     ELSE IF KeyBytes(privateKey) = "invalid"
     THEN /\ popup' = [popup EXCEPT !.error = "Private key validation failed"]
          /\ UNCHANGED <<storage, refreshing>>
     ELSE IF setRejects
     THEN /\ popup' = [popup EXCEPT !.error = "Private key validation failed"]
          /\ UNCHANGED <<storage, refreshing>>
     ELSE /\ storage' = StorageData(KeyBytes(privateKey), now)
          /\ popup' = [publicKey |-> GetPublicKey(KeyBytes(privateKey)),
                       bookmarks |-> <<>>,
                       isBookmarksLoading |-> IF initThrows
                                              THEN popup.isBookmarksLoading
                                              ELSE TRUE,
                       bookmarksError |-> Null, error |-> Null]
          /\ refreshing' = IF initThrows THEN refreshing ELSE refreshing + 1
  /\ UNCHANGED deleting
  /\ UNCHANGED <<relayVars, syncVars, queryVars, callVars, parse, race>>

\* Popup.handleLogout with AuthService.logout (removeRejects: storage.remove
\* rejects both times); the relay service of this specification is at rest
\* and cleanup leaves it so
HandleLogout(removeRejects) ==
  /\ popup.publicKey # Null
  /\ storage' = IF removeRejects THEN storage ELSE EmptyStorage
  /\ popup' = [popup EXCEPT !.publicKey = Null, !.bookmarks = <<>>,
                            !.bookmarksError = Null]
  /\ UNCHANGED <<deleting, refreshing>>
  /\ UNCHANGED <<relayVars, syncVars, queryVars, callVars, parse, race>>

\* the popup is closed and opened again: the component state starts afresh,
\* the calls of the old component are gone, and checkAuthAndInitRelays runs
\* with AuthService.getLoggedInUser (getRejects: storage.get rejects)
OpenPopup(getRejects, initThrows) ==
  /\ deleting # NotDeleting \/ refreshing > 0 \/ popup # InitialPopup
  /\ LET stored == IF getRejects \/ storage.nostrUserPublicKey = Undef
                   THEN Null ELSE storage.nostrUserPublicKey
         fetches == stored # Null /\ ~initThrows
     IN /\ popup' = [InitialPopup EXCEPT !.publicKey = stored,
                                         !.isBookmarksLoading = fetches]
        /\ refreshing' = IF fetches THEN 1 ELSE 0
  /\ deleting' = NotDeleting
  /\ UNCHANGED storage
  /\ UNCHANGED <<relayVars, syncVars, queryVars, callVars, parse, race>>

\* the refresh button: fetchAndSetBookmarks up to its await
FetchAndSetBookmarks ==
  /\ popup.publicKey # Null
  /\ ~popup.isBookmarksLoading
  /\ refreshing < MaxRefreshing
  /\ popup' = [popup EXCEPT !.isBookmarksLoading = TRUE, !.bookmarksError = Null]
  /\ refreshing' = refreshing + 1
  /\ UNCHANGED <<storage, deleting>>
  /\ UNCHANGED <<relayVars, syncVars, queryVars, callVars, parse, race>>

\* fetchAndSetBookmarks from the return of fetchBookmarks
FetchAndSetReturns(fetchedBookmarks) ==
  /\ refreshing > 0
  /\ popup' = [popup EXCEPT !.bookmarks = fetchedBookmarks,
                            !.isBookmarksLoading = FALSE]
  /\ refreshing' = refreshing - 1
  /\ UNCHANGED <<storage, deleting>>
  /\ UNCHANGED <<relayVars, syncVars, queryVars, callVars, parse, race>>

\* handleDeleteBookmark up to its await of deleteBookmark, from the delete
\* button of an entry BookmarkList shows
HandleDeleteBookmark ==
  /\ popup.publicKey # Null
  /\ ~popup.isBookmarksLoading
  /\ popup.bookmarksError = Null
  /\ deleting.pc \in {"idle", "done", "reverted"}
  /\ \E i \in 1..Len(popup.bookmarks) :
     LET id == popup.bookmarks[i].id
         found == BookmarkFound(popup.bookmarks, id)
     IN /\ deleting' = [pc |-> "deleting", bookmarkId |-> id,
                        publicKey |-> popup.publicKey, found |-> found,
                        bookmarkToDelete |-> popup.bookmarks[i],
                        before |-> popup.bookmarks]
        /\ popup' = [popup EXCEPT !.bookmarks =
                                    IF found THEN WithoutId(@, id) ELSE @]
  /\ UNCHANGED <<storage, refreshing>>
  /\ UNCHANGED <<relayVars, syncVars, queryVars, callVars, parse, race>>

\* deleteBookmark resolved: the refresh is put on a 3 s timer
DeleteResolves ==
  /\ deleting.pc = "deleting"
  /\ deleting' = [deleting EXCEPT !.pc = "timer"]
  /\ UNCHANGED <<storage, popup, refreshing>>
  /\ UNCHANGED <<relayVars, syncVars, queryVars, callVars, parse, race>>

\* the timer of handleDeleteBookmark fires: fetchAndSetBookmarks up to its
\* await, for the publicKey the handler was created with
RefreshTimerFires ==
  /\ deleting.pc = "timer"
  /\ refreshing < MaxRefreshing
  /\ deleting' = [deleting EXCEPT !.pc = "done"]
  /\ popup' = [popup EXCEPT !.isBookmarksLoading = TRUE, !.bookmarksError = Null]
  /\ refreshing' = refreshing + 1
  /\ UNCHANGED storage
  /\ UNCHANGED <<relayVars, syncVars, queryVars, callVars, parse, race>>

\* deleteBookmark threw: the catch block of handleDeleteBookmark
DeleteRaises ==
  /\ deleting.pc = "deleting"
  /\ deleting' = [deleting EXCEPT !.pc = "reverted"]
  /\ popup' = [popup EXCEPT
                 !.bookmarks = IF deleting.found
                               THEN RevertDelete(@, deleting.bookmarkToDelete)
                               ELSE @,
                 !.bookmarksError = "Failed to delete bookmark. Please try again."]
  /\ UNCHANGED <<storage, refreshing>>
  /\ UNCHANGED <<relayVars, syncVars, queryVars, callVars, parse, race>>

\* nobody has logged in and the popup has just been opened
PopupIdle ==
  /\ storage = EmptyStorage
  /\ popup = InitialPopup
  /\ deleting = NotDeleting
  /\ refreshing = 0

\* no deleteBookmark call of the pair has been made
NoRace ==
  [published |-> {}, overlap |-> FALSE, clock |-> 0,
   calls |-> [c \in 1..2 |->
                [pc |-> "idle", bookmarkId |-> Undef, currentBookmarks |-> <<>>,
                 event |-> NoEvent]]]

AppIdle ==
  /\ (parse = [event |-> NoEvent, bookmarks |-> <<>>, returned |-> FALSE])
  /\ PopupIdle
  /\ race = NoRace

vars == <<relayVars, syncVars, queryVars, callVars, appVars>>

\* the relay service alone: no bookmark call is running
Init ==
  /\ RelayInit
  /\ SyncIdle
  /\ listTags = <<>>
  /\ MergeIdle
  /\ QueryIdle
  /\ InitIdle
  /\ AppIdle

\* subscribe is called with one to MaxFilters filters
MergeInit ==
  /\ RelayInit
  /\ SyncIdle
  /\ listTags = <<>>
  /\ filters \in SeqsUpTo(FilterInputs, MaxFilters) \ {<<>>}
  /\ mergedFilter = NotMerged
  /\ QueryIdle
  /\ InitIdle
  /\ AppIdle

SpecMerge == MergeInit /\ [][MergeFilters]_vars

\* fetchUserRelays alone; the timeout fires, and the pool reports the close
\* of a subscription that was closed
DiscoveryNext ==
  \/ FetchUserRelays
  \/ \E content \in Contents : DiscoveryOnEvent(content)
  \/ DiscoveryOnClose
  \/ DiscoveryTimer

DiscoveryFairness ==
  /\ WF_vars(FetchUserRelays)
  /\ WF_vars(DiscoveryTimer)
  /\ WF_vars(discovery.closes > 0 /\ DiscoveryOnClose)

SpecDiscovery == Init /\ [][DiscoveryNext]_vars /\ DiscoveryFairness

\* one timed query at a time, its callbacks in every order
QueryNext ==
  \/ FetchUserRelays
  \/ \E content \in Contents : DiscoveryOnEvent(content)
  \/ DiscoveryOnClose
  \/ DiscoveryTimer
  \/ \E hasNotes \in BOOLEAN, relays \in SUBSET Urls, throws \in BOOLEAN :
       FetchNoteContents(hasNotes, relays, throws)
  \/ \E id \in {"n1", "n2"} : NoteOnEvent(id)
  \/ NoteOnEose
  \/ NoteOnClose
  \/ NoteTimer

SpecQuery == Init /\ [][QueryNext]_vars

Next == RelayNext

Spec == Init /\ [][Next]_vars

\* the connection operations alone, the caller calling when no operation
\* waits for the mutex, with the scheduling the runtime gives them: a pending
\* timeout fires after RECONNECT_DELAY, the mutex hands over to the next
\* waiting call, pool.ensureRelay settles within CONNECTION_TIMEOUT, a
\* settled call releases the mutex
RetryNext ==
  \/ \E urls \in UrlLists : mutexQueue = <<>> /\ CallConnect(urls)
  \/ \E url \in Urls : mutexQueue = <<>> /\ CallDisconnect(url)
  \/ \E url \in Urls : TimerFires(url)
  \/ ConnectBegins
  \/ \E url \in Urls : AttemptSucceeds(url)
  \/ \E url \in Urls, msg \in ErrMsgs : AttemptFails(url, msg)
  \/ ConnectSettles
  \/ \E url \in Urls, closeThrows \in BOOLEAN : DisconnectFromRelay(url, closeThrows)

RetryFairness ==
  /\ \A url \in Urls : SF_vars(TimerFires(url))
  /\ WF_vars(ConnectBegins)
  /\ \A url \in Urls :
       WF_vars(AttemptSucceeds(url) \/ \E msg \in ErrMsgs : AttemptFails(url, msg))
  /\ WF_vars(ConnectSettles)
  /\ WF_vars(\E url \in Urls, closeThrows \in BOOLEAN :
               DisconnectFromRelay(url, closeThrows))

SpecRetry == Init /\ [][RetryNext]_vars /\ RetryFairness

\* the connection operations with status listeners coming and going; the
\* caller makes a connection call when none is waiting for the mutex
ListenNext ==
  \/ \E urls \in UrlLists : mutexQueue = <<>> /\ CallConnect(urls)
  \/ \E url \in Urls : mutexQueue = <<>> /\ CallDisconnect(url)
  \/ \E url \in Urls : TimerFires(url)
  \/ ConnectBegins
  \/ \E url \in Urls : AttemptSucceeds(url)
  \/ \E url \in Urls, msg \in ErrMsgs : AttemptFails(url, msg)
  \/ ConnectSettles
  \/ \E url \in Urls, closeThrows \in BOOLEAN : DisconnectFromRelay(url, closeThrows)
  \/ \E listener \in {"l1", "l2"} : SubscribeToStatusUpdates(listener)
  \/ \E listener \in {"l1", "l2"} : UnsubscribeFromStatusUpdates(listener)

SpecListen == Init /\ [][ListenNext]_vars

\* the subscription registry and publish over the connection operations;
\* the caller makes a call when no operation is waiting for the mutex
SubNext ==
  \/ \E urls \in UrlLists : mutexQueue = <<>> /\ CallConnect(urls)
  \/ \E url \in Urls : mutexQueue = <<>> /\ CallDisconnect(url)
  \/ ConnectBegins
  \/ \E url \in Urls : AttemptSucceeds(url)
  \/ \E url \in Urls, msg \in ErrMsgs : AttemptFails(url, msg)
  \/ ConnectSettles
  \/ \E url \in Urls, closeThrows \in BOOLEAN : DisconnectFromRelay(url, closeThrows)
  \/ \E subId \in SubIds : mutexQueue = <<>> /\ Subscribe(subId)
  \/ \E subId \in SubIds : mutexQueue = <<>> /\ Unsubscribe(subId)
  \/ \E subId \in SubIds : mutexQueue = <<>> /\ SubscriptionUnsub(subId)
  \/ \E rejects \in BOOLEAN : mutexQueue = <<>> /\ Publish(rejects)
  \/ mutexQueue = <<>> /\ Cleanup

SpecSubs == Init /\ [][SubNext]_vars

\* initializeForUser over the connection operations: reconnect timeouts fire
\* and a caller disconnects relays while the call is running
InitNext ==
  \/ \E relayList \in {q \in UrlLists : Len(q) = Cardinality(Range(q))},
        fallbackRelays \in {<<"wss://a">>, <<"wss://a", "wss://b">>} :
       InitializeForUser(relayList, fallbackRelays)
  \/ \E url \in Urls : mutexQueue = <<>> /\ CallDisconnect(url)
  \/ \E url \in Urls : TimerFires(url)
  \/ ConnectBegins
  \/ \E url \in Urls : AttemptSucceeds(url)
  \/ \E url \in Urls, msg \in ErrMsgs : AttemptFails(url, msg)
  \/ ConnectSettles
  \/ \E url \in Urls, closeThrows \in BOOLEAN : DisconnectFromRelay(url, closeThrows)

SpecInit == Init /\ [][InitNext]_vars

\* parseBookmarkEvent applied to one event: any tag list up to MaxTags, any
\* timestamp
ParseSpecInit ==
  /\ RelayInit
  /\ SyncIdle
  /\ listTags = <<>>
  /\ MergeIdle
  /\ QueryIdle
  /\ InitIdle
  /\ \E t \in Stamps, tags \in SeqsUpTo(TagInputs, MaxTags) :
       parse = [event |-> Record(t, tags), bookmarks |-> <<>>, returned |-> FALSE]
  /\ PopupIdle
  /\ race = NoRace

\* the popup with its Login form, AuthService and the outcomes of the calls
\* it makes on the bookmark service. The user types an nsec or the hex form
\* of one of two keys, an nsec that does not decode, hex in upper case or
\* nothing; fetchBookmarks hands back no list, the mock list or the parsed
\* list of the author's record
PopupNext ==
  \/ \E privateKey \in {"nsec1k1", "hexk1", "nsec1k2", "hexk2", "nsec1bad",
                         "HEXK1", ""},
        now \in {1000, 2000}, setRejects, initThrows \in BOOLEAN :
       HandleLogin(privateKey, now, setRejects, initThrows)
  \/ \E removeRejects \in BOOLEAN : HandleLogout(removeRejects)
  \/ \E getRejects, initThrows \in BOOLEAN : OpenPopup(getRejects, initThrows)
  \/ FetchAndSetBookmarks
  \/ \E fetchedBookmarks \in
          {<<>>, MockBookmarks}
          \cup {ParseBookmarkEvent(Record(150, tags)) : tags \in AuthorTagLists} :
       FetchAndSetReturns(fetchedBookmarks)
  \/ HandleDeleteBookmark
  \/ DeleteResolves
  \/ RefreshTimerFires
  \/ DeleteRaises

SpecPopup == Init /\ [][PopupNext]_vars

SpecParse == ParseSpecInit /\ [][Parse]_vars

\* the bookmark service over a relay service that has connected some of its
\* relays and is otherwise at rest
SyncInit ==
  /\ MergeIdle
  /\ QueryIdle
  /\ InitIdle
  /\ AppIdle
  /\ \E connected \in SUBSET Urls :
       /\ relayStatuses = [u \in Urls |->
                             IF u \in connected
                             THEN [status |-> "connected", error |-> NoErr]
                             ELSE Absent]
       /\ targetRelays = connected
  /\ reconnectTimeouts = {}
  /\ timers = {}
  /\ subscriptions = {}
  /\ streams = [id \in SubIds |-> NoStream]
  /\ mutexQueue = <<>>
  /\ conn = NoConn
  /\ opening = [u \in Urls |-> 0]
  /\ lastCall = NoCall
  /\ allCall = NoAll
  /\ listeners = <<>>
  /\ delivered = <<>>
  /\ SyncIdle
  /\ listTags \in AuthorTagLists

SpecSync == SyncInit /\ [][SyncNext]_vars

\* ------------------------------------------------------------------------
\* Bookmark service: two deleteBookmark calls in flight at once
\* ------------------------------------------------------------------------
\* what pool.querySync returns for the author's kind 10003 records: the
\* record the author had and every record a call has published, in any order
StoredAnswers ==
  LET stored == {Record(100, listTags)} \cup race.published
  IN {q \in SeqsUpTo(stored, Cardinality(stored)) : Range(q) = stored}

\* deleteBookmark(id, publicKey) is called as call c; the other call, if
\* made, is for another id
DeleteBookmarkCalled(c, id) ==
  /\ UNCHANGED <<relayVars, syncVars, queryVars, callVars, parse, storage, popup,
                 deleting, refreshing>>
  /\ race.calls[c].pc = "idle"
  /\ race.calls[3 - c].bookmarkId # id
  /\ race' = [race EXCEPT
                !.calls[c].pc = "fetching",
                !.calls[c].bookmarkId = id,
                !.overlap = @ \/ race.calls[3 - c].pc \notin {"idle", "done", "failed"}]

\* call c: fetchBookmarks returns, the entry is looked up and filtered out
\* and the remaining entries are encoded
DeleteBookmarkFetched(c) ==
  /\ UNCHANGED <<relayVars, syncVars, queryVars, callVars, parse, storage, popup,
                 deleting, refreshing>>
  /\ race.calls[c].pc = "fetching"
  /\ \E answer \in StoredAnswers :
       LET fetched == ParseBookmarkEvent(SortEvents(answer)[1])
           id == race.calls[c].bookmarkId
       IN race' = IF BookmarkFound(fetched, id)
                  THEN [race EXCEPT
                          !.calls[c].pc = "stamping",
                          !.calls[c].currentBookmarks = fetched,
                          !.calls[c].event.tags =
                             EncodeBookmarks(WithoutId(fetched, id))]
                  ELSE [race EXCEPT
                          !.calls[c].pc = "failed",
                          !.calls[c].currentBookmarks = fetched]

\* call c: the lookup of the latest timestamp and the timestamp of the new
\* event; now: Math.floor(Date.now() / 1000), which never goes back
DeleteBookmarkStamped(c, now) ==
  /\ UNCHANGED <<relayVars, syncVars, queryVars, callVars, parse, storage, popup,
                 deleting, refreshing>>
  /\ race.calls[c].pc = "stamping"
  /\ now >= race.clock
  /\ \E answer \in StoredAnswers :
       race' = [race EXCEPT
                  !.clock = now,
                  !.calls[c].pc = "signing",
                  !.calls[c].event.created_at =
                     NewTimestamp(LatestTimestamp(answer), now)]

\* call c: the event is signed and published; accepted: some relay took it
DeleteBookmarkPublished(c, accepted) ==
  /\ UNCHANGED <<relayVars, syncVars, queryVars, callVars, parse, storage, popup,
                 deleting, refreshing>>
  /\ race.calls[c].pc = "signing"
  /\ LET unsigned == race.calls[c].event
         signedEvent == [unsigned EXCEPT
                           !.id = RecordId(unsigned.created_at, unsigned.tags)]
     IN race' = IF accepted
                THEN [race EXCEPT !.calls[c].pc = "done",
                                  !.calls[c].event = signedEvent,
                                  !.published = @ \cup {signedEvent}]
                ELSE [race EXCEPT !.calls[c].pc = "failed",
                                  !.calls[c].event = signedEvent]

RaceNext ==
  \/ \E c \in 1..2, id \in {"https://a.com", "evt1", "evt2", "evt3"} :
       DeleteBookmarkCalled(c, id)
  \/ \E c \in 1..2 : DeleteBookmarkFetched(c)
  \/ \E c \in 1..2, now \in {99, 200} : DeleteBookmarkStamped(c, now)
  \/ \E c \in 1..2, accepted \in BOOLEAN : DeleteBookmarkPublished(c, accepted)

SpecRace == SyncInit /\ [][RaceNext]_vars

\* ------------------------------------------------------------------------
\* Relay service: properties
\* ------------------------------------------------------------------------
StatusOf(u) == relayStatuses[u].status

\* C1: once disconnectFromRelay(url) has left url 'disconnected', url leaves
\* 'disconnected' (a new open attempt starts) only in a connectToRelays call
\* made by the caller, never in one made by a reconnect timer.
C1_NoReconnectAfterDisconnect ==
  [][\A u \in Urls :
       (StatusOf(u) = "disconnected" /\ relayStatuses'[u].status # "disconnected")
         => (conn'.origin = "caller" /\ u \in Range(conn'.urls))]_vars

\* C2: at any moment at most one pool.ensureRelay(url) is outstanding for a
\* url, and a url is 'connecting' exactly while that one attempt is outstanding,
\* whatever calls for the same url are waiting and however often the running
\* call lists the url.
C2_SingleOpenAttempt ==
  \A u \in Urls :
    /\ opening[u] <= 1
    /\ (StatusOf(u) = "connecting") <=> (opening[u] = 1)

\* C2 witness: an attempt for u is outstanding in a call that lists u twice
\* while a second connectToRelays call for u waits for the mutex.
C2_Witness ==
  \E u \in Urls :
    /\ opening[u] = 1
    /\ conn.active /\ conn.urls = <<u, u>>
    /\ mutexQueue # <<>>
    /\ Head(mutexQueue).op = "connect"
    /\ u \in Range(Head(mutexQueue).urls)

\* C3: every disconnectFromRelay(url) leaves url 'disconnected', not a target
\* and without a pending reconnect timer; on a non-target it issues no close
\* call on the pool or on a subscription and changes nothing but the status
\* of url; on a url that is already a disconnected non-target (the second of
\* two calls in a row) it changes nothing at all.
C3_DisconnectIdempotent ==
  [][\A u \in Urls, closeThrows \in BOOLEAN :
       DisconnectFromRelay(u, closeThrows) =>
         /\ relayStatuses'[u].status = "disconnected"
         /\ u \notin targetRelays'
         /\ u \notin timers'
         /\ (u \notin targetRelays =>
               /\ lastCall'.poolClose = {} /\ lastCall'.unsubs = {}
               /\ \A v \in Urls \ {u} : relayStatuses'[v] = relayStatuses[v]
               /\ UNCHANGED <<targetRelays, reconnectTimeouts, timers,
                              subscriptions, opening, conn>>)
         /\ (u \notin targetRelays /\ StatusOf(u) = "disconnected" =>
               relayStatuses' = relayStatuses)]_vars

\* C11: whenever an open attempt for url has failed (status 'error', for
\* either failure message), eventually a new open attempt for url is started
\* (status 'connecting') unless the caller disconnects url first (status
\* 'disconnected'); this holds after every failure.
C11_FailedAttemptIsRetried ==
  \A u \in Urls :
    (StatusOf(u) = "error" /\ relayStatuses[u].error \in ErrMsgs)
      ~> (StatusOf(u) \in {"connecting", "disconnected"})

\* C11 witness: an attempt for u started by the reconnect timer is
\* outstanding and no call of the caller is waiting.
C11_Witness ==
  \E u \in Urls :
    /\ conn.active /\ conn.origin = "timer" /\ conn.urls = <<u>>
    /\ StatusOf(u) = "connecting" /\ opening[u] = 1

\* C12: when pool.ensureRelay(url) resolves, url becomes 'connected' and no
\* reconnect timeout is pending for url.
C12_SuccessClearsReconnect ==
  [][\A u \in Urls :
       AttemptSucceeds(u) =>
         (relayStatuses'[u].status = "connected" /\ u \notin timers')]_vars

\* C13: disconnectAllRelays issues a disconnectFromRelay for exactly the
\* relays that are targets when it is called; when it settles, and no
\* connectToRelays call ran in between, every one of those relays is
\* 'disconnected' and no relay is a target, whether or not pool.close threw
\* for some of them.
C13_DisconnectAllReachesEveryTarget ==
  [][/\ CallDisconnectAll =>
          {c.urls[1] : c \in {d \in Range(mutexQueue') : d.origin = "all"}}
            = targetRelays
     /\ (allCall.active /\ ~allCall'.active /\ ~allCall.behind) =>
          /\ \A u \in allCall.urls : relayStatuses'[u].status = "disconnected"
          /\ targetRelays' = {}]_vars

\* C13 witness: a disconnectAllRelays call over both relays has settled,
\* pool.close threw for one of them and the other was closed after it.
C13_Witness ==
  \E u \in Urls, v \in Urls :
    /\ u # v
    /\ lastCall.op = "disconnectAll" /\ lastCall.all = {u, v}
    /\ lastCall.url = v /\ lastCall.poolClose = {v}
    /\ relayStatuses[u] = [status |-> "disconnected", error |-> "Close operation failed"]
    /\ StatusOf(v) = "disconnected"
    /\ targetRelays = {}

\* C14: the listener calls of a step come in rounds, one round per status
\* change (and one per closing notification): each round calls every
\* registered listener, in registration order, with one and the same
\* snapshot; successive snapshots differ in at most one relay, starting from
\* the status map before the step, and the last one is the status map after
\* it, so every change is reported with the whole map as it is at that
\* moment. A listener being registered is called at once, alone, with the
\* current map.
C14_ListenersGetFullSnapshotInOrder ==
  [][LET n == Len(listeners)
         k == IF n = 0 THEN 0 ELSE Len(delivered') \div n
         snap(r) == IF r = 0 THEN relayStatuses
                    ELSE delivered'[(r - 1) * n + 1].statuses
         changed(a, b) == {u \in Urls : a[u] # b[u]}
     IN /\ listeners' = listeners =>
            /\ Len(delivered') = k * n
            /\ \A r \in 1..k :
                 /\ \A i \in 1..n :
                      delivered'[(r - 1) * n + i]
                        = [listener |-> listeners[i], statuses |-> snap(r)]
                 /\ Cardinality(changed(snap(r - 1), snap(r))) <= 1
            /\ (n > 0 => snap(k) = relayStatuses')
        /\ \A l \in {"l1", "l2"} :
             SubscribeToStatusUpdates(l) =>
               delivered' = <<[listener |-> l, statuses |-> relayStatuses']>>]_vars

\* C14 witness: two listeners are registered and the last step called both,
\* in registration order, once for each of two successive status maps.
C14_Witness ==
  /\ Len(listeners) = 2
  /\ Len(delivered) >= 4
  /\ delivered[1].listener = listeners[1] /\ delivered[2].listener = listeners[2]
  /\ delivered[1].statuses = delivered[2].statuses
  /\ delivered[3].statuses # delivered[1].statuses
  /\ delivered[Len(delivered)].statuses = relayStatuses

\* C10: a connectToRelays call with a non-empty list raises exactly when none
\* of the urls passed to it is connected once its attempts have settled.
C10_RaisesIffNonePassedConnected ==
  [][(ConnectSettles /\ Len(conn.urls) > 0) =>
       (lastCall'.raised <=> (Range(conn.urls) \cap GetConnectedRelays = {}))]_vars

\* ------------------------------------------------------------------------
\* Bookmark service: properties
\* ------------------------------------------------------------------------
\* C4: the created_at of the record deleteBookmark published is greater than
\* the created_at of every record any query of that call returned.
C4_SupersedesEveryObservedRecord ==
  publishedTo # {} => \A t \in observed : event.created_at > t

C7_NotFoundRaisesAndPublishesNothing ==
  (op = "delete" /\ pc \in {"failed", "stamping", "signing", "verifying", "done"}
     /\ bookmarkId \notin {currentBookmarks[i].id : i \in 1..Len(currentBookmarks)})
    => (pc = "failed" /\ syncError = "not found" /\ ~signed /\ publishedTo = {})

\* C7 witness: a record was fetched and parsed into a non-empty list, none
\* of whose entries has the id, and the call failed with 'not found'.
C7_Witness ==
  /\ op = "delete" /\ pc = "failed" /\ syncError = "not found"
  /\ bookmarkListEvent # NoEvent
  /\ currentBookmarks # <<>>
  /\ bookmarkId \notin {currentBookmarks[i].id : i \in 1..Len(currentBookmarks)}

\* C8: for a canonical record whose tags are all valid 'r' and 'e' tags, the
\* tag list deleteBookmark publishes is the canonical tag list without the
\* tags of the deleted id, every surviving tag unchanged and in order.
C8_PublishedTagsAreCanonicalMinusDeleted ==
  LET tags == bookmarkListEvent.tags
      valid(tag) == /\ Len(tag) >= 2
                    /\ \/ tag[1] = "r" /\ IsValidUrl(tag[2])
                       \/ tag[1] = "e"
      survives(tag) == tag[2] # bookmarkId
  IN (publishedTo # {} /\ bookmarkListEvent # NoEvent
        /\ \A i \in 1..Len(tags) : valid(tags[i]))
       => event.tags = SelectSeq(tags, survives)

\* C9: parsing the tags that deleteBookmark encoded from a list of entries
\* yields that list again, createdAt and the source record id aside.
C9_EncodeParseRoundTrip ==
  LET strip(b) == [b EXCEPT !.createdAt = 0,
                            !.eventId = IF b.type = "website" THEN Undef ELSE @]
      stripAll(q) == [i \in 1..Len(q) |-> strip(q[i])]
  IN pc \in {"stamping", "signing", "verifying"} =>
       stripAll(ParseBookmarkEvent(event))
         = stripAll(WithoutId(currentBookmarks, bookmarkId))
\* C15: closing the handle subscribe returned removes the subscription from
\* the registry, so no stream is ever closed a second time and every
\* registered subscription has an open stream.
C15_ClosedHandleLeavesRegistry ==
  /\ \A id \in SubIds : streams[id].state # "closed twice"
  /\ \A id \in subscriptions : streams[id].state = "open"

\* C16: disconnectFromRelay(url) leaves every open subscription whose relays
\* do not include url open and registered.
C16_DisconnectKeepsOtherSubscriptions ==
  [][\A url \in Urls, closeThrows \in BOOLEAN :
       DisconnectFromRelay(url, closeThrows) =>
         \A id \in subscriptions :
           (streams[id].state = "open" /\ url \notin streams[id].relays) =>
             (id \in subscriptions' /\ streams'[id] = streams[id])]_vars

\* C17: with no relay in status 'connected', subscribe and publish raise the
\* 'No connected relays available' error, open no stream, register nothing
\* and send nothing.
C17_NoConnectedRelaysFailsFast ==
  [][/\ \A id \in SubIds :
          (Subscribe(id) /\ \A u \in Urls : StatusOf(u) # "connected") =>
            /\ lastCall'.raised /\ lastCall'.error = "No connected relays available"
            /\ subscriptions' = subscriptions /\ streams' = streams
     /\ \A rejects \in BOOLEAN :
          (Publish(rejects) /\ \A u \in Urls : StatusOf(u) # "connected") =>
            /\ lastCall'.raised /\ lastCall'.error = "No connected relays available"
            /\ lastCall'.sent = {}
            /\ subscriptions' = subscriptions /\ streams' = streams]_vars

\* a subscribe or publish call has failed while relays are tracked but none
\* of them is connected
C17_Witness ==
  /\ lastCall.op \in {"subscribe", "publish"}
  /\ lastCall.error = "No connected relays available"
  /\ targetRelays # {}
  /\ \A u \in Urls : StatusOf(u) # "connected"

\* the values a field has in the filters that carry it
ValuesOf(field) ==
  {filters[i][field].val : i \in {j \in DOMAIN filters : filters[j][field].set}}

\* C18: every list field of the merged filter is the union of the inputs'
\* lists, and when some input carries since, until or limit, the merged
\* since is the minimum of the inputs' since values and the merged until and
\* limit are the maximum of the inputs' values.
C18_MergedFilterIsUnionMinMax ==
  mergedFilter.built =>
    /\ \A field \in {"kinds", "authors", "ids", "e", "p"} :
         Range(mergedFilter[field]) = UNION {Range(v) : v \in ValuesOf(field)}
    /\ ValuesOf("since") # {} =>
         /\ ~mergedFilter.since.inf
         /\ mergedFilter.since.val \in ValuesOf("since")
         /\ \A v \in ValuesOf("since") : mergedFilter.since.val <= v
    /\ \A field \in {"until", "limit"} :
         ValuesOf(field) # {} =>
           /\ mergedFilter[field].val \in ValuesOf(field)
           /\ \A v \in ValuesOf(field) : mergedFilter[field].val >= v

\* C19: in both timed queries the subscription is never closed more than
\* once, for every order of event, end-of-stream, close and timer callbacks.
C19_TimedQueryClosesOnce ==
  /\ discovery.closes <= 1
  /\ noteQuery.closes <= 1

C21_ReturnsOnlyWhenConnected ==
  [][(init.pc # "idle" /\ init'.pc = "idle") =>
       /\ init'.outcome # "none"
       /\ init'.outcome = "returned" <=> ConnectedIn(relayStatuses') # {}]_vars

\* a call has returned after its attempt on the fallback relays
C21_Witness ==
  /\ init.pc = "idle"
  /\ init.outcome = "returned"
  /\ Len(init.attempts) = 2
  /\ GetConnectedRelays # {}

\* C22: initializeForUser attempts the fallback relays once more exactly
\* when its first attempt ended with no relay connected and the relays first
\* attempted were not the fallback relays; it never attempts a third time.
C22_FallbackAttemptExactlyWhenDue ==
  [][(init.pc = "first" /\ init'.pc # "first") =>
       /\ Len(init'.attempts) <= 2
       /\ Len(init'.attempts) = 2 <=>
            /\ ConnectedIn(relayStatuses') = {}
            /\ Range(init.relaysToConnect) # Range(init.fallbackRelays)]_vars

\* C23: when fetchBookmarks obtains no bookmark record it returns the empty
\* list and raises no error.
C23_NoRecordGivesEmptyList ==
  [][(FetchQuery /\ pc' = "selected") =>
       (currentBookmarks' = <<>> /\ syncError' = syncError)]_vars

\* C24: the list fetchBookmarks returns is ordered by non-increasing
\* createdAt.
C24_ReturnedListNewestFirst ==
  pc = "selected" =>
    \A i, j \in 1..Len(currentBookmarks) :
      i < j => currentBookmarks[i].createdAt >= currentBookmarks[j].createdAt

\* fetchBookmarks returns a list of two entries parsed from a record
C24_Witness ==
  /\ pc = "selected"
  /\ bookmarkListEvent # NoEvent
  /\ currentBookmarks = ParseBookmarkEvent(bookmarkListEvent)
  /\ Len(currentBookmarks) >= 2
  /\ currentBookmarks[1].createdAt > currentBookmarks[2].createdAt

\* C25: parseBookmarkEvent returns exactly one entry per tag ['r', v, ...]
\* whose v is a valid http(s) url (a website entry with id = url = v) and per
\* tag ['e', v, ...] (a note entry with id = referenced id = v), in the order
\* of the tags; a tag of another kind, an 'r' tag with an invalid url and a
\* tag that is too short contribute nothing and do not disturb the entries of
\* the other tags. The id is v whatever the record and the position are.
C25_OneEntryPerBookmarkTag ==
  parse.returned =>
    LET kept == SelectSeq(parse.event.tags,
                          LAMBDA tag : /\ Len(tag) >= 2
                                       /\ \/ tag[1] = "e"
                                          \/ tag[1] = "r" /\ IsValidUrl(tag[2]))
    IN /\ Len(parse.bookmarks) = Len(kept)
       /\ \A i \in 1..Len(kept) :
            LET bookmark == parse.bookmarks[i]
                v == kept[i][2]
            IN /\ bookmark.id = v
               /\ kept[i][1] = "r" => bookmark.type = "website" /\ bookmark.url = v
               /\ kept[i][1] = "e" => bookmark.type = "note" /\ bookmark.eventId = v

\* a list with a url that is not http(s), a tag that is too short and a
\* foreign kind between bookmarks of both kinds has been parsed
C25_Witness ==
  /\ parse.returned
  /\ Len(parse.event.tags) = MaxTags
  /\ parse.event.tags[1] \in {<<"r", "ftp://a.com">>, <<"r">>, <<"t", "topic">>, <<>>}
  /\ Len(parse.bookmarks) = MaxTags - 1
  /\ parse.bookmarks[1].type = "website"
  /\ parse.bookmarks[2].type = "note"

\* C26: once deleteBookmark has signed the event, pool.publish has been
\* called on every relay whose connection ensureRelayConnections found at
\* publish time, whichever of them rejected: a rejection by one relay leaves
\* the attempts on the others in place.
C26_PublishAttemptedOnEveryActiveRelay ==
  (op = "delete" /\ signed) => publishedTo = activeRelays

\* two relays were attempted, one of them rejected and the other accepted
C26_Witness ==
  /\ op = "delete"
  /\ signed
  /\ Cardinality(publishedTo) = 2
  /\ Cardinality(successes) = 1
  /\ pc = "verifying"

\* C27: when the id was found and the event was signed, deleteBookmark
\* raises the error of its publish step ("No connected relays available for
\* publishing" when nothing could be attempted, otherwise "Failed to publish
\* replaceable event to any relays") exactly when no relay accepted the event.
C27_PublishErrorIffNoRelayAccepted ==
  (op = "delete" /\ signed) =>
    (syncError \in {"No connected relays available for publishing",
                    "Failed to publish replaceable event to any relays"}
       <=> successes = {})

\* every relay that was attempted rejected, and the call failed
C27_Witness ==
  /\ op = "delete"
  /\ signed
  /\ Cardinality(publishedTo) = 2
  /\ successes = {}
  /\ pc = "failed"
  /\ syncError = "Failed to publish replaceable event to any relays"

\* C28: when a relay accepted the publish, deleteBookmark completes without
\* an error whatever the verification fetch returned, the deleted id still
\* listed or an empty list included.
C28_VerificationNeverRaises ==
  (successes # {} /\ bookmarksAfterDeletion # NotFetched) =>
    (pc = "done" /\ syncError = "none")

\* the verification fetch returned a list that still has the deleted id
C28_Witness ==
  /\ successes # {}
  /\ pc = "done"
  /\ \E i \in 1..Len(bookmarksAfterDeletion) :
       bookmarksAfterDeletion[i].id = bookmarkId

\* C29: chrome.storage.local never holds the user's secret key, right after
\* a login included.
C29_StorageHoldsNoSecretKey ==
  storage.secretKey = Undef

\* C30: when deleteBookmark raises after handleDeleteBookmark removed an
\* entry from the list, the list after the revert holds that entry exactly
\* once, also when a refresh replaced the list while the delete was in flight.
C30_RevertedEntryListedOnce ==
  [][(/\ deleting.pc = "deleting"
      /\ deleting'.pc = "reverted"
      /\ deleting.found)
     => Len(SelectSeq(popup'.bookmarks,
                      LAMBDA b : b.id = deleting.bookmarkId)) = 1]_vars

\* C31: a connectToRelays call made by a reconnect timer starts an open
\* attempt only for a url that is a target when the call gets the mutex, and
\* a reconnect timer is pending only for a target.
C31_TimerReconnectsOnlyTargets ==
  [][/\ \A u \in Urls :
          (conn'.active /\ ~conn.active /\ conn'.origin = "timer"
           /\ opening'[u] > opening[u]) => u \in targetRelays
     /\ timers' \subseteq targetRelays']_vars

\* C32: a connectToRelays body and a disconnectFromRelay body get the mutex
\* only when no connectToRelays body holds it, both give it up when they end
\* (connectToRelays also when it throws), and every change of the status map
\* or of the target set is made by a step of the body that holds the mutex.
C32_MutexSerializesConnectAndDisconnect ==
  [][LET disconnects == \E u \in Urls, closeThrows \in BOOLEAN :
                          DisconnectFromRelay(u, closeThrows)
         attempts == \E u \in Urls :
                       \/ AttemptSucceeds(u)
                       \/ \E msg \in ErrMsgs : AttemptFails(u, msg)
     IN /\ (ConnectBegins \/ disconnects) => ~conn.active
        /\ (ConnectSettles \/ disconnects) => ~conn'.active
        /\ (relayStatuses' # relayStatuses \/ targetRelays' # targetRelays) =>
             \/ ConnectBegins
             \/ conn.active /\ (attempts \/ ConnectSettles)
             \/ disconnects]_vars

\* C32 witness: a disconnectFromRelay call for a relay waits for the mutex
\* while the connectToRelays body that holds it has an attempt outstanding
\* for the same relay
C32_Witness ==
  \E u \in Urls :
    /\ conn.active
    /\ opening[u] = 1
    /\ mutexQueue # <<>>
    /\ Head(mutexQueue) = [op |-> "disconnect", urls |-> <<u>>, origin |-> "caller"]

\* C38: every relay whose status is 'connecting' or 'connected' is in the
\* target set.
C38_ConnectingOrConnectedIsTarget ==
  \A u \in Urls :
    relayStatuses[u].status \in {"connecting", "connected"} => u \in targetRelays


\* C38 witness: one relay is 'connected' and another 'connecting', both in
\* the target set, while a disconnectFromRelay call waits for the mutex
C38_Witness ==
  \E u, v \in Urls :
    /\ relayStatuses[u].status = "connected"
    /\ relayStatuses[v].status = "connecting"
    /\ {u, v} \subseteq targetRelays
    /\ mutexQueue # <<>>
    /\ Head(mutexQueue).op = "disconnect"


\* C40: when cleanup() and the disconnectFromRelay calls it started have
\* ended, no reconnect timer is pending, the subscription registry is empty
\* and no relay is 'connecting' or 'connected' (so that no open attempt can
\* start without a new connect request), also when cleanup() was called
\* while a connectToRelays call was running.
C40_CleanupLeavesNothingRunning ==
  [][LET lastDisconnectOfCleanup ==
           /\ \E u \in Urls, closeThrows \in BOOLEAN :
                DisconnectFromRelay(u, closeThrows)
           /\ Head(mutexQueue).origin = "cleanup"
           /\ \A i \in 1..Len(mutexQueue') : mutexQueue'[i].origin # "cleanup"
         cleanupWithoutTargets == Cleanup /\ UrlsToDisconnect = {}
     IN (lastDisconnectOfCleanup \/ cleanupWithoutTargets) =>
          /\ timers' = {}
          /\ reconnectTimeouts' = {}
          /\ subscriptions' = {}
          /\ \A v \in Urls :
               relayStatuses'[v].status \notin {"connecting", "connected"}]_vars


\* C39: the merged filter built by subscribe matches every record that at
\* least one input filter matches, an omitted field of an input filter meaning
\* no restriction. The merged filter is read in its own favour: an empty
\* merged list, a merged since of Infinity and a merged until of 0 are taken
\* as no restriction.
C39_MergedFilterCoversInputs ==
  LET records == [kind : {10003, 1}, pubkey : {"pk1", "pk3"}, id : {"n1", "n9"},
                  e : {{}, {"n2"}}, p : {{}, {"pk2"}}, created_at : {0, 50, 100}]
      inList(field, r) ==
        CASE field = "kinds" -> {r.kind}
          [] field = "authors" -> {r.pubkey}
          [] field = "ids" -> {r.id}
          [] field = "e" -> r.e
          [] field = "p" -> r.p
      lists == {"kinds", "authors", "ids", "e", "p"}
      matchesInput(f, r) ==
        /\ \A field \in lists :
             f[field].set => inList(field, r) \cap Range(f[field].val) # {}
        /\ f.since.set => r.created_at >= f.since.val
        /\ f.until.set => r.created_at <= f.until.val
      matchesMerged(m, r) ==
        /\ \A field \in lists :
             m[field] # <<>> => inList(field, r) \cap Range(m[field]) # {}
        /\ ~m.since.inf => r.created_at >= m.since.val
        /\ (~m.until.neginf /\ m.until.val # 0) => r.created_at <= m.until.val
  IN mergedFilter.built =>
       \A r \in records :
         (\E i \in DOMAIN filters : matchesInput(filters[i], r))
           => matchesMerged(mergedFilter, r)


\* C33: fetchBookmarks re-queries only when the record with the highest
\* createdAt has zero entries while an older record of the same result set
\* has entries, and the winner of the re-query replaces the original pick
\* only if it has at least as many entries as the original pick.
C33_RequeryOnlyWhenOlderHasEntries ==
  (pc = "selected" /\ eventsToProcess # <<>> /\ refreshedEvents # NotAsked) =>
    LET sortedEvents == SortEvents(eventsToProcess)
        first == sortedEvents[1]
    IN /\ Len(ParseBookmarkEvent(first)) = 0
       /\ \E i \in 1..Len(sortedEvents) :
            /\ sortedEvents[i].created_at < first.created_at
            /\ Len(ParseBookmarkEvent(sortedEvents[i])) > 0
       /\ bookmarkListEvent # first =>
            Len(ParseBookmarkEvent(bookmarkListEvent))
              >= Len(ParseBookmarkEvent(first))

\* C33 as amended: fetchBookmarks re-queries only when the record with the
\* highest createdAt has zero tags while the result set holds at least one
\* other record, whatever that record's entries or createdAt; the record that
\* is parsed is the original pick or the first record of the re-query, and it
\* is the latter only if that has a different id and at least as many tags.
C33_RequeryOnlyWhenNewestEmptyAndNotAlone ==
  (pc = "selected" /\ eventsToProcess # <<>>) =>
    LET sortedEvents == SortEvents(eventsToProcess)
        first == sortedEvents[1]
    IN /\ refreshedEvents # NotAsked =>
            (Len(first.tags) = 0 /\ Len(sortedEvents) > 1)
       /\ bookmarkListEvent # first =>
            /\ refreshedEvents \notin {NotAsked, Throws, <<>>}
            /\ bookmarkListEvent = SortEvents(refreshedEvents)[1]
            /\ bookmarkListEvent.id # first.id
            /\ Len(bookmarkListEvent.tags) >= Len(first.tags)

\* C33 witness: the newest record of the first answer is empty, the other
\* record of that answer is empty too, and the re-query returned a record
\* with tags, which is the one that was parsed
C33_Witness ==
  /\ pc = "selected"
  /\ Len(eventsToProcess) > 1
  /\ \A i \in 1..Len(eventsToProcess) : eventsToProcess[i].tags = <<>>
  /\ refreshedEvents \notin {NotAsked, Throws, <<>>}
  /\ bookmarkListEvent = SortEvents(refreshedEvents)[1]
  /\ bookmarkListEvent.tags # <<>>


\* C34: deleteBookmark goes through fetching, mutating, publishing and
\* verifying in this order: the event is signed and published only in the
\* step that follows the stamping of the new event, which follows the checks
\* on the list the fetch of this call returned; the verification fetch is
\* made only after at least one relay accepted the publish; after a 'not
\* found' error nothing is signed or published.
C34_DeleteFetchesMutatesPublishesVerifies ==
  [][/\ (op = "delete" /\ pc' # pc) =>
          <<pc, pc'>> \in {<<"querying", "selecting">>, <<"querying", "selected">>,
                           <<"selecting", "selected">>, <<"selected", "fetched">>,
                           <<"fetched", "stamping">>, <<"fetched", "failed">>,
                           <<"stamping", "signing">>, <<"signing", "verifying">>,
                           <<"signing", "failed">>, <<"verifying", "done">>}
     /\ (signed' # signed \/ publishedTo' # publishedTo) =>
          /\ op = "delete" /\ pc = "signing"
          /\ BookmarkFound(currentBookmarks, bookmarkId)
     /\ bookmarksAfterDeletion' # bookmarksAfterDeletion =>
          (pc = "verifying" /\ signed /\ successes # {})
     /\ syncError = "not found" =>
          (~signed' /\ publishedTo' = {} /\ pc' = "failed")]_vars

\* C34 witness: a deleteBookmark call went through all four phases: its
\* fetch returned a list with the id, a relay accepted the new event and the
\* verification fetch was made
C34_Witness ==
  /\ op = "delete" /\ pc = "done"
  /\ BookmarkFound(currentBookmarks, bookmarkId)
  /\ signed /\ successes # {}
  /\ bookmarksAfterDeletion # NotFetched


\* C35: every tag of the event deleteBookmark publishes is the encoding of
\* an entry parsed from the bookmark record that a relay returned to the
\* fetch of this call; the placeholder entries are never published.
C35_PublishedTagsComeFromReceivedRecord ==
  (op = "delete" /\ publishedTo # {}) =>
    LET received == ParseBookmarkEvent(bookmarkListEvent)
    IN \A i \in 1..Len(event.tags) :
         /\ \E j \in 1..Len(received) :
              EncodeBookmark(received[j]) = <<event.tags[i]>>
         /\ \A k \in 1..Len(MockBookmarks) :
              EncodeBookmark(MockBookmarks[k]) # <<event.tags[i]>>


\* C36: every tag of the canonical record that is not a tag of the deleted
\* id (an 'r' or 'e' tag whose value is the id) is carried over to the
\* published event: a tag of the same kind with the same value is in it.
C36_OtherTagsAreCarriedOver ==
  (op = "delete" /\ publishedTo # {} /\ bookmarkListEvent # NoEvent) =>
    \A i \in 1..Len(bookmarkListEvent.tags) :
      LET tag == bookmarkListEvent.tags[i]
      IN ~(tag[1] \in {"r", "e"} /\ tag[2] = bookmarkId) =>
           \E j \in 1..Len(event.tags) :
             /\ event.tags[j][1] = tag[1]
             /\ event.tags[j][2] = tag[2]


\* C37: when two deleteBookmark calls for different ids overlapped and both
\* completed without error, exactly one of the records they published has
\* the highest createdAt, and that record lists neither of the two ids.
C37_OverlappingDeletesBothTakeEffect ==
  (race.overlap /\ \A c \in 1..2 : race.calls[c].pc = "done") =>
    LET newest == {e \in race.published :
                     \A f \in race.published : f.created_at <= e.created_at}
    IN /\ Cardinality(newest) = 1
       /\ \A e \in newest, c \in 1..2 :
            ~BookmarkFound(ParseBookmarkEvent(e), race.calls[c].bookmarkId)

====
